---- MODULE Spec2Model ----
(***************************************************************************)
(* A model of cppvtable: the vtable generator of the cppvtable-macro crate *)
(* (slot resolution, gap filling, vtable record layout, trampolines with   *)
(* this-adjustment, reserved-slot stubs) and the runtime support of the    *)
(* cppvtable crate (ComRefCount, query_interface, TypeInfo::cast_to).      *)
(*                                                                         *)
(* Option<T> values of the source are sets with at most one element:       *)
(* None is {} and Some(k) is {k}.                                          *)
(***************************************************************************)
EXTENDS Integers, Sequences, FiniteSets, TLC

\* ------------------------------------------------------------------------
\* Bounds of the model
\* ------------------------------------------------------------------------

\* most methods in one trait or impl block given to the generator
MaxMethods == 2

\* largest explicit slot index written in a declaration
MaxSlot == 4

\* ------------------------------------------------------------------------
\* Small helpers for Option values
\* ------------------------------------------------------------------------

None == {}

Some(x) == {x}

Unwrap(opt) == CHOOSE x \in opt : TRUE

\* ------------------------------------------------------------------------
\* Inputs of the generator: method lists and configurations
\* ------------------------------------------------------------------------

\* identifiers of the methods of a declaration, in declaration order
MethodNames == <<"m1", "m2", "m3", "m4", "m5", "m6", "m7", "m8">>

\* what #[slot(N)] / #[doc(alias = "__slot:N")] parses to: None or Some(N)
parse_slot_attr == {None} \cup {Some(k) : k \in 0..MaxSlot}

\* the method items of a trait or impl block with n methods
ItemsOfLen(n) ==
    {[i \in 1..n |-> [name |-> MethodNames[i], attr |-> f[i]]] :
        f \in [1..n -> parse_slot_attr]}

AllItems == UNION {ItemsOfLen(n) : n \in 0..MaxMethods}

\* HashMap<String, usize> of the slots(...) option: no entry, or one entry
slot_overrides ==
    {[x \in {} |-> 0]} \cup
    {(MethodNames[i] :> k) : i \in 1..MaxMethods, k \in 0..MaxSlot}

\* first slot of the interface side: slot indices are relative to the
\* derived interface
first_slot == 0

\* first_slot of com_implement: IUnknown has three methods
ComFirstSlot == 3

\* ------------------------------------------------------------------------
\* Slot resolution and vtable record generation, interface side
\* (cppvtable_internal)
\* ------------------------------------------------------------------------

\* VTableConfig / ImplConfig :: x86_calling_conv
x86_calling_conv(calling_convention) ==
    IF calling_convention = "Thiscall" THEN "thiscall" ELSE "stdcall"

\* the syn::Error of a rejected explicit slot
SlotError(kind, method_name, explicit_slot, available) ==
    [ok |-> FALSE, kind |-> kind, method |-> method_name,
     slot |-> explicit_slot, available |-> available]

\* the explicit slot of a trait method: the slots(...) override first, then
\* the #[slot(N)] attribute of the method
TraitExplicitSlot(config, item) ==
    IF item.name \in DOMAIN config.slot_overrides
    THEN Some(config.slot_overrides[item.name])
    ELSE item.attr

\* a resolver that lets a method repeat the index just assigned
SlotTaken_OffByOne(explicit_slot, next_slot) == explicit_slot + 1 < next_slot

\* `explicit_slot < next_slot`: the explicit slot is already taken
SlotTaken(explicit_slot, next_slot) == explicit_slot < next_slot

\* a resolver that does not advance past the slot just assigned
NextFree_Same(slot) == slot

\* `next_slot = slot + 1` after a method got its slot
NextFree(slot) == slot + 1

\* the loop over the trait items: assigns each method its slot, or returns
\* the error of the first method whose explicit slot is already taken
RECURSIVE CollectTraitMethods(_, _, _, _, _)
CollectTraitMethods(config, items, i, next_slot, methods) ==
    IF i > Len(items)
    THEN [ok |-> TRUE, methods |-> methods]
    ELSE
        LET method_name == items[i].name
            explicit == TraitExplicitSlot(config, items[i])
        IN  IF explicit # None /\ Unwrap(explicit) < first_slot
            THEN SlotError("base", method_name, Unwrap(explicit), first_slot)
            ELSE IF explicit # None /\ SlotTaken(Unwrap(explicit), next_slot)
            THEN SlotError("overlap", method_name, Unwrap(explicit), next_slot)
            ELSE
                LET slot == IF explicit # None THEN Unwrap(explicit) ELSE next_slot
                IN  CollectTraitMethods(config, items, i + 1, NextFree(slot),
                        Append(methods, [slot |-> slot, name |-> method_name]))

\* Vec::sort_by_key(|m| m.slot): a stable sort by slot
RECURSIVE InsertBySlot(_, _)
InsertBySlot(sorted, m) ==
    IF sorted = <<>>
    THEN <<m>>
    ELSE IF Head(sorted).slot <= m.slot
         THEN <<Head(sorted)>> \o InsertBySlot(Tail(sorted), m)
         ELSE <<m>> \o sorted

RECURSIVE sort_by_key(_)
sort_by_key(methods) ==
    IF methods = <<>>
    THEN <<>>
    ELSE InsertBySlot(sort_by_key(SubSeq(methods, 1, Len(methods) - 1)),
                      methods[Len(methods)])

\* a field `__reserved_slot_N` of the vtable record
ReservedField(n) == [kind |-> "reserved", n |-> n]

\* a function-pointer field named after its method
MethodField(name) == [kind |-> "method", name |-> name]

\* a gap filler that stops one dummy entry short
GapFields_OneShort(current_slot, slot) ==
    IF current_slot + 1 < slot
    THEN [k \in 1..(slot - current_slot - 1) |-> [kind |-> "reserved", n |-> current_slot + k - 1]]
    ELSE <<>>

\* `while current_slot < method.slot`: the dummy entries pushed before a
\* method, one per slot from current_slot up to the method's slot
GapFields(current_slot, slot) ==
    IF current_slot < slot
    THEN [k \in 1..(slot - current_slot) |-> ReservedField(current_slot + k - 1)]
    ELSE <<>>

\* the loop that emits the vtable fields, filling gaps with dummy entries
RECURSIVE GenerateFields(_, _, _, _)
GenerateFields(methods, j, current_slot, vtable_fields) ==
    IF j > Len(methods)
    THEN [vtable_fields |-> vtable_fields, current_slot |-> current_slot]
    ELSE
        LET method == methods[j]
            gap == GapFields(current_slot, method.slot)
            after_gap == IF current_slot < method.slot
                         THEN method.slot ELSE current_slot
        IN  GenerateFields(methods, j + 1, after_gap + 1,
                vtable_fields \o gap \o <<MethodField(method.name)>>)

\* cppvtable_internal: the vtable record of a trait, or the error
cppvtable_internal(config, items) ==
    LET collected == CollectTraitMethods(config, items, 1, first_slot, <<>>)
    IN  IF ~collected.ok
        THEN collected
        ELSE
            LET methods == sort_by_key(collected.methods)
                gen == GenerateFields(methods, 1, 0, <<>>)
            IN  [ok |-> TRUE,
                 methods |-> methods,
                 x86_cc |-> x86_calling_conv(config.calling_convention),
                 base_vtable_field |-> config.base_interface,
                 vtable_fields |-> gen.vtable_fields,
                 own_slot_count |-> gen.current_slot]

\* ------------------------------------------------------------------------
\* Slot resolution and static vtable generation, implementation side
\* (cppvtable_impl_internal)
\* ------------------------------------------------------------------------

\* the loop over the impl items
RECURSIVE CollectImplMethods(_, _, _, _)
CollectImplMethods(items, i, next_slot, methods) ==
    IF i > Len(items)
    THEN [ok |-> TRUE, methods |-> methods]
    ELSE
        LET method_name == items[i].name
            explicit == items[i].attr
        IN  IF explicit # None /\ SlotTaken(Unwrap(explicit), next_slot)
            THEN SlotError("overlap", method_name, Unwrap(explicit), next_slot)
            ELSE
                LET slot == IF explicit # None THEN Unwrap(explicit) ELSE next_slot
                IN  CollectImplMethods(items, i + 1, NextFree(slot),
                        Append(methods, [slot |-> slot, name |-> method_name]))

\* the dummy wrapper of a gap: panic!("Called reserved vtable slot {}", N)
ReservedStub(current_slot) ==
    [fn |-> "panic", message |-> <<"Called reserved vtable slot", current_slot>>]

\* the wrapper of a real method: adjusts `this`, then calls the method
MethodWrapper(name) == [fn |-> "wrapper", method |-> name]

\* the vtable entries `__reserved_slot_N: stub` pushed before a method
GapEntries(current_slot, slot) ==
    IF current_slot < slot
    THEN [k \in 1..(slot - current_slot) |->
            [field |-> ReservedField(current_slot + k - 1),
             value |-> ReservedStub(current_slot + k - 1)]]
    ELSE <<>>

\* the loop that emits the wrappers and the vtable entries
RECURSIVE GenerateEntries(_, _, _, _)
GenerateEntries(methods, j, current_slot, vtable_entries) ==
    IF j > Len(methods)
    THEN [vtable_entries |-> vtable_entries, current_slot |-> current_slot]
    ELSE
        LET method == methods[j]
            gap == GapEntries(current_slot, method.slot)
            after_gap == IF current_slot < method.slot
                         THEN method.slot ELSE current_slot
        IN  GenerateEntries(methods, j + 1, after_gap + 1,
                vtable_entries \o gap \o
                <<[field |-> MethodField(method.name),
                   value |-> MethodWrapper(method.name)]>>)

\* cppvtable_impl_internal: the initializer of the static vtable, or the error
cppvtable_impl_internal(config, items) ==
    LET collected == CollectImplMethods(items, 1, config.first_slot, <<>>)
    IN  IF ~collected.ok
        THEN collected
        ELSE
            LET methods == sort_by_key(collected.methods)
                gen == GenerateEntries(methods, 1, config.first_slot, <<>>)
            IN  [ok |-> TRUE,
                 methods |-> methods,
                 x86_cc |-> x86_calling_conv(config.calling_convention),
                 base_vtable_entry |-> config.base_interface,
                 first_slot |-> config.first_slot,
                 vtable_entries |-> gen.vtable_entries,
                 end_slot |-> gen.current_slot]

\* the ImplConfig of #[cppvtable_impl]
cppvtable_impl_impl ==
    [calling_convention |-> "Thiscall", base_interface |-> None,
     first_slot |-> 0, generate_rtti |-> TRUE, iid_const |-> None]

\* the items of the token stream `expanded` that cppvtable_impl_internal
\* returns: forwarders of the base, wrappers, the static vtable, and the
\* impl block with the vtable accessor, the IID and the InterfaceInfo
\* when configured
expanded_items(config, out) ==
    IF ~out.ok
    THEN {}
    ELSE {"wrapper_fns", "static vtable", "impl", "VTABLE const"}
         \cup (IF config.base_interface # None THEN {"base_forwarders"} ELSE {})
         \cup (IF config.iid_const # None THEN {"IID const"} ELSE {})
         \cup (IF config.generate_rtti THEN {"INTERFACE_INFO const"} ELSE {})

\* the ImplConfig of #[com_implement]
com_implement_internal ==
    [calling_convention |-> "Stdcall", base_interface |-> Some("IUnknown"),
     first_slot |-> ComFirstSlot, generate_rtti |-> FALSE,
     iid_const |-> Some("IID_I")]

\* the VTableConfig of #[com_interface("...")]
com_interface ==
    [calling_convention |-> "Stdcall", base_interface |-> Some("IUnknown"),
     slot_overrides |-> [x \in {} |-> 0]]

\* ------------------------------------------------------------------------
\* What the compiler makes of the generated items
\* ------------------------------------------------------------------------

\* size of a pointer on the build target
PointerSize(t) == IF t \in {"x86", "arm"} THEN 4 ELSE 8

\* the build targets: two of 32 bits and two of 64 bits
Targets == {"x86", "arm", "x86_64", "aarch64"}

\* an ABI that keeps the declared convention on every target
ExternAbi_Declared(x86_cc, t) == x86_cc

\* the ABI string of a generated function pointer or trampoline: of the two
\* variants `#[cfg(target_arch = "x86")] extern #x86_cc` and
\* `#[cfg(not(target_arch = "x86"))] extern "C"` the compiler keeps one
ExternAbi(x86_cc, t) == IF t = "x86" THEN x86_cc ELSE "C"

\* a record that puts the embedded base record after the own fields
VTableStruct_BaseLast(out) ==
    out.vtable_fields \o
    (IF out.base_vtable_field # None
     THEN <<[kind |-> "base", name |-> Unwrap(out.base_vtable_field)]>>
     ELSE <<>>)

\* the fields of the #[repr(C)] vtable record, in order: the `base` field
\* when a base interface is configured, then the generated fields
VTableStruct(out) ==
    (IF out.base_vtable_field # None
     THEN <<[kind |-> "base", name |-> Unwrap(out.base_vtable_field)]>>
     ELSE <<>>) \o out.vtable_fields

\* size_of a field of the record: the base record, or one function pointer
FieldSize(known, field, t) ==
    IF field.kind = "base" THEN known[field.name].size ELSE PointerSize(t)

\* byte offset of field k of the #[repr(C)] record
RECURSIVE FieldOffset(_, _, _, _)
FieldOffset(known, fields, k, t) ==
    IF k = 1
    THEN 0
    ELSE FieldOffset(known, fields, k - 1, t) + FieldSize(known, fields[k - 1], t)

\* a SLOT_COUNT that forgets the slots of the base interface
VTableLayout_OwnOnly(known, out, t) ==
    [SLOT_COUNT |-> out.own_slot_count,
     size |-> FieldOffset(known, VTableStruct(out), Len(VTableStruct(out)) + 1, t),
     fields |-> [k \in 1..Len(VTableStruct(out)) |->
                    [field |-> VTableStruct(out)[k],
                     offset |-> FieldOffset(known, VTableStruct(out), k, t)]]]

\* impl VTableLayout for the trait: SLOT_COUNT is
\* `<Base as VTableLayout>::SLOT_COUNT + own_slot_count`, or own_slot_count
\* alone without a base; size is size_of::<VTable>()
VTableLayout(known, out, t) ==
    LET fields == VTableStruct(out)
    IN  [SLOT_COUNT |->
            IF out.base_vtable_field # None
            THEN known[Unwrap(out.base_vtable_field)].SLOT_COUNT + out.own_slot_count
            ELSE out.own_slot_count,
         size |-> FieldOffset(known, fields, Len(fields) + 1, t),
         fields |-> [k \in 1..Len(fields) |->
                        [field |-> fields[k],
                         offset |-> FieldOffset(known, fields, k, t)]]]

\* the IUnknown trait of the com module and its attribute
\* #[cppvtable(stdcall, no_iid, internal)]
IUnknown ==
    [config |-> [calling_convention |-> "Stdcall", base_interface |-> None,
                 slot_overrides |-> [x \in {} |-> 0]],
     items |-> <<[name |-> "query_interface", attr |-> None],
                 [name |-> "add_ref", attr |-> None],
                 [name |-> "release", attr |-> None]>>]

\* the ICalculator trait of the COM tests: #[com_interface("...")] with the
\* methods add and multiply
ICalculator ==
    [config |-> com_interface,
     items |-> <<[name |-> "add", attr |-> None],
                 [name |-> "multiply", attr |-> None]>>]

\* ------------------------------------------------------------------------
\* State
\* ------------------------------------------------------------------------

VARIABLES
    target,          \* build target, one of Targets
    layouts,         \* the VTableLayout impls in scope: interface name -> layout
    expansion,       \* the macro expansion in hand: its input, output and stage
    type_info,       \* TypeInfo.interfaces of the descriptor in use
    object_ptr,      \* the object pointer handed to cast_to
    cast,            \* the last cast_to call and the pointer it returned
    overflow_checks, \* whether the build panics on arithmetic overflow
    com_object,      \* the COM object: its address and vtable field offset
    ref_count,       \* the AtomicU32 inside the object's ComRefCount
    pc,              \* per thread: the call it is inside, after the atomic step
    fetched,         \* per thread: the value its fetch_add / fetch_sub returned
    result,          \* per thread: its last call and how it ended
    calls,           \* number of add_ref and of release calls on the counter
    struct_fields,   \* field order of the #[repr(C)] implementing struct
    memory,          \* address -> content, for the fields of the live objects
    iface_ptr,       \* the interface pointer obtained by the last cast
    call,            \* the last call made through an interface pointer
    vtable_record,   \* the vtable record of the declared interface
    static_vtable,   \* the static vtable of the implementation, once compiled
    invocation,      \* the last call of a slot of the static vtable
    guid_str,        \* the string literal of #[com_interface("...")]
    iid,             \* what the macro made of the literal
    shown,           \* the text Display gives for the interface identifier
    atomic,          \* the counter as the memory model has it: value and view
    views,           \* per thread: the writes it is guaranteed to see
    holder,          \* per thread: where it is with its reference
    written,         \* per thread: number of writes it made to the object
    seen,            \* per thread: the writes it saw when it destroyed the object
    vtable_with_rtti, \* the VTableWithRtti in memory
    got_type_info,   \* the last get_type_info call and what it read
    word,            \* the 32 bits of a result code, as a u32
    hr,              \* the HRESULT: the bits as an i32
    checked,         \* what succeeded and failed say about hr
    declaration,     \* the attribute and the trait or impl block handed to a macro
    generated,       \* what the macro returned for it
    counter,         \* the AtomicU32 of a ComRefCount shared by the threads
    holding,         \* the references each thread holds
    inside,              \* where each thread is inside add_ref or release
    previous,        \* the value each thread got from its fetch_add or fetch_sub
    lifetime         \* what happened to the object so far

genVars == <<layouts, expansion>>

rttiVars == <<type_info, object_ptr, cast>>

comVars == <<overflow_checks, com_object, ref_count, pc, fetched, result, calls>>

callVars == <<struct_fields, memory, iface_ptr, call>>

linkVars == <<vtable_record, static_vtable, invocation>>

guidVars == <<guid_str, iid, shown>>

orderVars == <<atomic, views, holder, written, seen>>

vrttiVars == <<vtable_with_rtti, got_type_info>>

hresultVars == <<word, hr, checked>>

validateVars == <<declaration, generated>>

protoVars == <<counter, holding, inside, previous, lifetime>>

vars ==
    <<target, genVars, rttiVars, comVars, callVars, linkVars, guidVars, orderVars, vrttiVars, hresultVars, validateVars,
      protoVars>>

\* the parts of the state a run of the generator does not touch
NoRtti == type_info = <<>> /\ object_ptr = 0 /\ cast = <<>>

NoCom ==
    /\ overflow_checks = FALSE /\ com_object = <<>> /\ ref_count = <<>>
    /\ pc = <<>> /\ fetched = <<>> /\ result = <<>> /\ calls = <<>>

NoCall == struct_fields = <<>> /\ memory = <<>> /\ iface_ptr = <<>> /\ call = <<>>

NoLink == vtable_record = <<>> /\ static_vtable = <<>> /\ invocation = <<>>

NoGen == layouts = <<>> /\ expansion = <<>>

NoGuid == guid_str = "" /\ iid = <<>> /\ shown = ""

NoOrder ==
    /\ atomic = <<>> /\ views = <<>> /\ holder = <<>>
    /\ written = <<>> /\ seen = <<>>

NoProto == counter = <<>> /\ holding = <<>> /\ inside = <<>> /\ previous = <<>> /\ lifetime = <<>>

NoValidate == declaration = [macro |-> "none"] /\ generated = [done |-> FALSE]

NoHresult == word = <<>> /\ hr = 0 /\ checked = <<>>

NoVRtti == vtable_with_rtti = <<>> /\ got_type_info = <<>>

\* the options of #[cppvtable(...)]
VTableConfigs(known) ==
    {[calling_convention |-> cc, base_interface |-> b, slot_overrides |-> o] :
        cc \in {"Thiscall", "Stdcall"},
        b \in {None} \cup {Some(n) : n \in known},
        o \in slot_overrides}

\* the interfaces in scope before the declaration under expansion:
\* IUnknown, and ICalculator which extends it
KnownLayouts(t) ==
    LET unknown == ("IUnknown" :>
            VTableLayout(<<>>, cppvtable_internal(IUnknown.config, IUnknown.items), t))
    IN  unknown @@ ("ICalculator" :>
            VTableLayout(unknown,
                cppvtable_internal(ICalculator.config, ICalculator.items), t))

InitGen ==
    /\ target \in Targets
    /\ layouts = KnownLayouts(target)
    /\ expansion = [stage |-> "none"]
    /\ NoRtti /\ NoCom /\ NoCall /\ NoLink /\ NoGuid /\ NoOrder /\ NoVRtti /\ NoHresult /\ NoValidate /\ NoProto

\* #[cppvtable(options)] trait IFirst { items }
Cppvtable ==
    /\ expansion.stage = "none"
    /\ \E config \in VTableConfigs(DOMAIN layouts), items \in AllItems :
        /\ expansion' = [stage |-> "expanded", macro |-> "cppvtable",
                         side |-> "interface", name |-> "IFirst",
                         config |-> config, items |-> items,
                         out |-> cppvtable_internal(config, items)]
        /\ UNCHANGED <<target, protoVars, validateVars, hresultVars, vrttiVars, guidVars, orderVars, layouts, rttiVars, comVars, callVars, linkVars>>

\* #[com_interface("guid")] trait IFirst { items }
ComInterface ==
    /\ expansion.stage = "none"
    /\ \E items \in AllItems :
        /\ expansion' = [stage |-> "expanded", macro |-> "com_interface",
                         side |-> "interface", name |-> "IFirst",
                         config |-> com_interface, items |-> items,
                         out |-> cppvtable_internal(com_interface, items)]
        /\ UNCHANGED <<target, protoVars, validateVars, hresultVars, vrttiVars, guidVars, orderVars, layouts, rttiVars, comVars, callVars, linkVars>>

\* #[cppvtable_impl(I)] impl S { items }
CppvtableImpl ==
    /\ expansion.stage = "none"
    /\ \E items \in AllItems :
        /\ expansion' = [stage |-> "expanded", macro |-> "cppvtable_impl",
                         side |-> "impl", name |-> "S",
                         config |-> cppvtable_impl_impl, items |-> items,
                         out |-> cppvtable_impl_internal(cppvtable_impl_impl, items),
                         emitted |-> expanded_items(cppvtable_impl_impl,
                                        cppvtable_impl_internal(cppvtable_impl_impl, items))]
        /\ UNCHANGED <<target, protoVars, validateVars, hresultVars, vrttiVars, guidVars, orderVars, layouts, rttiVars, comVars, callVars, linkVars>>

\* #[com_implement(I)] impl S { items }
ComImplement ==
    /\ expansion.stage = "none"
    /\ \E items \in AllItems :
        /\ expansion' = [stage |-> "expanded", macro |-> "com_implement",
                         side |-> "impl", name |-> "S",
                         config |-> com_implement_internal, items |-> items,
                         out |-> cppvtable_impl_internal(com_implement_internal, items),
                         emitted |-> expanded_items(com_implement_internal,
                                        cppvtable_impl_internal(com_implement_internal, items))]
        /\ UNCHANGED <<target, protoVars, validateVars, hresultVars, vrttiVars, guidVars, orderVars, layouts, rttiVars, comVars, callVars, linkVars>>

\* the compiler lays out the vtable record of an expanded interface and
\* evaluates its SLOT_COUNT
CompileInterface ==
    /\ expansion.stage = "expanded"
    /\ expansion.side = "interface"
    /\ expansion.out.ok
    /\ expansion' = [stage |-> "compiled",
                     abi |-> [k \in 1..Len(expansion.out.vtable_fields) |->
                                ExternAbi(expansion.out.x86_cc, target)]] @@ expansion
    /\ layouts' = layouts @@
            (expansion.name :> VTableLayout(layouts, expansion.out, target))
    /\ UNCHANGED <<target, protoVars, validateVars, hresultVars, vrttiVars, guidVars, orderVars, rttiVars, comVars, callVars, linkVars>>

\* the compiler keeps, of each generated wrapper and reserved stub of an
\* expanded implementation, the variant of the build target
CompileImpl ==
    /\ expansion.stage = "expanded"
    /\ expansion.side = "impl"
    /\ expansion.out.ok
    /\ expansion' = [stage |-> "compiled",
                     abi |-> [k \in 1..Len(expansion.out.vtable_entries) |->
                                ExternAbi(expansion.out.x86_cc, target)]] @@ expansion
    /\ UNCHANGED <<target, protoVars, validateVars, hresultVars, vrttiVars, guidVars, orderVars, layouts, rttiVars, comVars, callVars, linkVars>>

NextGen ==
    \/ Cppvtable \/ ComInterface \/ CppvtableImpl \/ ComImplement
    \/ CompileInterface \/ CompileImpl

SpecGen == InitGen /\ [][NextGen]_vars

\* ------------------------------------------------------------------------
\* Vocabulary of the slot properties
\* ------------------------------------------------------------------------

Expanded == expansion.stage \in {"expanded", "compiled"}

\* the explicit slot a declaration gives to its i-th method
DeclaredSlot(e, i) ==
    IF e.side = "interface"
    THEN (IF e.items[i].name \in DOMAIN e.config.slot_overrides
          THEN Some(e.config.slot_overrides[e.items[i].name])
          ELSE e.items[i].attr)
    ELSE e.items[i].attr

\* the slot the table of a declaration starts at
StartSlot(e) == IF e.side = "interface" THEN 0 ELSE e.config.first_slot

\* the next free slot when the i-th method is reached: the slot after the
\* previously assigned method
RECURSIVE NextFreeAt(_, _)
NextFreeAt(e, i) ==
    IF i = 1
    THEN StartSlot(e)
    ELSE 1 + (IF DeclaredSlot(e, i - 1) # None
              THEN Unwrap(DeclaredSlot(e, i - 1))
              ELSE NextFreeAt(e, i - 1))

\* the i-th method names a slot below the next free slot
Conflicts(e, i) ==
    /\ DeclaredSlot(e, i) # None
    /\ Unwrap(DeclaredSlot(e, i)) < NextFreeAt(e, i)

\* the first method of the declaration that conflicts
FirstConflict(e, i) ==
    /\ Conflicts(e, i)
    /\ \A j \in 1..(i - 1) : ~Conflicts(e, j)

\* the generated slot table: the kinds of the entries from the start slot on
SlotTable(e) ==
    IF e.side = "interface"
    THEN e.out.vtable_fields
    ELSE [k \in 1..Len(e.out.vtable_entries) |-> e.out.vtable_entries[k].field]

\* the entry of slot n in the table
EntryAt(e, n) == SlotTable(e)[n - StartSlot(e) + 1]

\* the slots the table covers
TableSlots(e) == StartSlot(e)..(StartSlot(e) + Len(SlotTable(e)) - 1)

\* C2: a declaration in which some method names an explicit slot below the
\* next free slot is rejected, on both sides, with an error that names the
\* first such method; it is never accepted
C2_ConflictRejected ==
    Expanded =>
        \A i \in 1..Len(expansion.items) :
            FirstConflict(expansion, i) =>
                /\ ~expansion.out.ok
                /\ expansion.out.method = expansion.items[i].name
                /\ expansion.out.slot = Unwrap(DeclaredSlot(expansion, i))

\* a second method repeats the index the first was given, on the
\* implementation side, and the error names it
C2_Witness ==
    /\ Expanded
    /\ expansion.side = "impl"
    /\ Len(expansion.items) = 2
    /\ expansion.items[1].attr = Some(4)
    /\ expansion.items[2].attr = Some(4)
    /\ ~expansion.out.ok
    /\ expansion.out.method = "m2"

Compiled == expansion.stage = "compiled" /\ expansion.side = "interface"

\* the largest element of a non-empty set of numbers
MaxOf(S) == CHOOSE x \in S : \A y \in S : y <= x

\* the slot count of the base interface of a declaration, 0 without a base
BaseSlots(e) ==
    IF e.config.base_interface = None
    THEN 0
    ELSE layouts[Unwrap(e.config.base_interface)].SLOT_COUNT

\* the function-pointer fields of a laid out record (all but the base)
OwnFields(layout) ==
    SelectSeq(layout.fields, LAMBDA f : f.field.kind # "base")

\* C4: SLOT_COUNT of an interface is the slot count of its base (0 without
\* one) plus one plus the highest own slot used (plus 0 without methods);
\* N methods without explicit slots give N own fields; IUnknown's 3 slots
\* and 2 own methods give 5, one more method on top of that gives 6; and
\* the record is SLOT_COUNT pointers large
C4_SlotCount ==
    /\ layouts["IUnknown"].SLOT_COUNT = 3
    /\ layouts["ICalculator"].SLOT_COUNT = 5
    /\ layouts["ICalculator"].size = 5 * PointerSize(target)
    /\ Compiled =>
        LET e == expansion
            layout == layouts[e.name]
            used == {e.out.methods[j].slot : j \in 1..Len(e.out.methods)}
            own == IF e.items = <<>> THEN 0 ELSE 1 + MaxOf(used)
        IN  /\ layout.SLOT_COUNT = BaseSlots(e) + own
            /\ layout.size = layout.SLOT_COUNT * PointerSize(target)
            /\ ((\A i \in 1..Len(e.items) : DeclaredSlot(e, i) = None) =>
                    Len(OwnFields(layout)) = Len(e.items))
            /\ ((e.config.base_interface = Some("ICalculator")
                    /\ Len(e.items) = 1 /\ DeclaredSlot(e, 1) = None) =>
                    layout.SLOT_COUNT = 6)

\* an interface with one method that extends ICalculator has 6 slots
C4_Witness ==
    /\ Compiled
    /\ expansion.config.base_interface = Some("ICalculator")
    /\ Len(expansion.items) = 1
    /\ DeclaredSlot(expansion, 1) = None
    /\ layouts["IFirst"].SLOT_COUNT = 6
    /\ layouts["IFirst"].size = 6 * PointerSize(target)

\* C5: the fields of a generated record are the base record first, at
\* offset 0, when a base is declared, and then the own slots in ascending
\* slot index: position i of the own part holds the method assigned to own
\* slot i, or the reserved placeholder of slot i
C5_FieldOrder ==
    Compiled =>
        LET e == expansion
            layout == layouts[e.name]
            has_base == e.config.base_interface # None
            skip == IF has_base THEN 1 ELSE 0
            base_size == IF has_base
                         THEN layouts[Unwrap(e.config.base_interface)].size
                         ELSE 0
        IN  /\ has_base =>
                /\ layout.fields[1].field.kind = "base"
                /\ layout.fields[1].field.name = Unwrap(e.config.base_interface)
                /\ layout.fields[1].offset = 0
            /\ \A k \in (skip + 1)..Len(layout.fields) :
                LET i == k - skip - 1
                    f == layout.fields[k]
                IN  /\ f.field.kind # "base"
                    /\ f.offset = base_size + i * PointerSize(target)
                    /\ \A j \in 1..Len(e.out.methods) :
                          e.out.methods[j].slot = i =>
                              f.field = MethodField(e.out.methods[j].name)
                    /\ (\A j \in 1..Len(e.out.methods) : e.out.methods[j].slot # i)
                          => f.field = ReservedField(i)
            /\ \A j \in 1..Len(e.out.methods) :
                  e.out.methods[j].slot + skip + 1 \in 1..Len(layout.fields)

\* a COM interface with a gap: the base record, two reserved slots, then
\* the method at own slot 2
C5_Witness ==
    /\ Compiled
    /\ expansion.macro = "com_interface"
    /\ Len(expansion.items) = 2
    /\ DeclaredSlot(expansion, 1) = Some(2)
    /\ layouts["IFirst"].fields[1].field.kind = "base"
    /\ layouts["IFirst"].fields[4].field = MethodField("m1")
    /\ Len(layouts["IFirst"].fields) = 5

\* ------------------------------------------------------------------------
\* Runtime type information (rtti.rs)
\* ------------------------------------------------------------------------

\* most InterfaceInfo entries in one descriptor
MaxInterfaces == 2

\* std::ptr::null()
NULL == 0

\* the interface identifiers: addresses of the statics that identify an
\* interface; the bytes they point to are all equal, only the address tells
\* two interfaces apart
InterfaceIds == {"&IID_A", "&IID_B", "&IID_C"}

\* InterfaceInfo.offset (isize): byte offsets of a vtable pointer field
InterfaceOffsets == {0, 8, 16, -8}

\* InterfaceInfo { interface_id, offset }
InterfaceInfo == [interface_id : InterfaceIds, offset : InterfaceOffsets]

\* TypeInfo.interfaces: a slice of InterfaceInfo, possibly empty, possibly
\* with an identifier listed twice
TypeInfos == UNION {[1..n -> InterfaceInfo] : n \in 0..MaxInterfaces}

\* addresses of the objects handed to cast_to
ObjectPtrs == {4096, 8192}

\* std::ptr::eq on interface identifiers
ptr_eq(a, b) == a = b

\* a scan that keeps looking after a match and returns the last one
RECURSIVE cast_to_LastMatch(_, _, _, _)
cast_to_LastMatch(interfaces, k, ptr, interface_id) ==
    IF k < 1
    THEN NULL
    ELSE IF ptr_eq(interfaces[Len(interfaces) + 1 - k].interface_id, interface_id)
              /\ \A j \in (Len(interfaces) + 2 - k)..Len(interfaces) :
                    ~ptr_eq(interfaces[j].interface_id, interface_id)
         THEN ptr + interfaces[Len(interfaces) + 1 - k].offset
         ELSE cast_to_LastMatch(interfaces, k - 1, ptr, interface_id)

\* TypeInfo::cast_to: `for info in self.interfaces`, from entry
\* Len - k + 1 on; k entries are left to look at
RECURSIVE cast_to(_, _, _, _)
cast_to(interfaces, k, ptr, interface_id) ==
    IF k < 1
    THEN NULL
    ELSE IF ptr_eq(interfaces[Len(interfaces) + 1 - k].interface_id, interface_id)
         THEN ptr + interfaces[Len(interfaces) + 1 - k].offset
         ELSE cast_to(interfaces, k - 1, ptr, interface_id)

\* an `implements` that looks at the first entry only
implements_FirstEntry(interfaces, interface_id) ==
    /\ Len(interfaces) > 0
    /\ ptr_eq(interfaces[1].interface_id, interface_id)

\* TypeInfo::implements:
\* self.interfaces.iter().any(|i| std::ptr::eq(i.interface_id, interface_id))
implements(interfaces, interface_id) ==
    \E k \in 1..Len(interfaces) : ptr_eq(interfaces[k].interface_id, interface_id)

InitRtti ==
    /\ type_info \in TypeInfos
    /\ object_ptr \in ObjectPtrs
    /\ cast = [called |-> FALSE, asked |-> FALSE]
    /\ target = "x86_64"
    /\ NoGen /\ NoCom /\ NoCall /\ NoLink /\ NoGuid /\ NoOrder /\ NoVRtti /\ NoHresult /\ NoValidate /\ NoProto

\* type_info.cast_to(object_ptr, interface_id)
CastTo ==
    \E interface_id \in InterfaceIds :
        /\ cast' = [called |-> TRUE, asked |-> FALSE,
                    interface_id |-> interface_id,
                    ptr |-> cast_to(type_info, Len(type_info), object_ptr,
                                    interface_id)]
        /\ UNCHANGED <<type_info, object_ptr, target, protoVars, validateVars, hresultVars, vrttiVars, guidVars, orderVars, genVars, comVars,
                       callVars, linkVars>>

\* type_info.implements(interface_id)
Implements ==
    \E interface_id \in InterfaceIds :
        /\ cast' = [called |-> FALSE, asked |-> TRUE,
                    interface_id |-> interface_id,
                    implements |-> implements(type_info, interface_id)]
        /\ UNCHANGED <<type_info, object_ptr, target, protoVars, validateVars, hresultVars, vrttiVars, guidVars, orderVars, genVars, comVars,
                       callVars, linkVars>>

NextRtti == CastTo \/ Implements

SpecRtti == InitRtti /\ [][NextRtti]_vars

\* the entries of the descriptor whose identifier is the requested one
Matching == {k \in 1..Len(type_info) : type_info[k].interface_id = cast.interface_id}

\* C10: cast_to returns object_ptr plus the offset of the first entry, in
\* the descriptor's order, whose identifier is the requested one (the
\* object pointer itself when that offset is 0), and null when no entry
\* matches, an empty descriptor included; the offset of an entry that does
\* not match is never used.
C10_CastTo ==
    cast.called =>
        IF Matching = {}
        THEN cast.ptr = NULL
        ELSE LET first == CHOOSE k \in Matching : \A j \in Matching : k <= j
             IN  /\ cast.ptr = object_ptr + type_info[first].offset
                 /\ type_info[first].offset = 0 => cast.ptr = object_ptr

\* a descriptor that lists the requested identifier twice with different
\* offsets, after which the cast went by the first of the two
C10_Witness ==
    /\ cast.called
    /\ Len(type_info) = 2
    /\ Matching = {1, 2}
    /\ type_info[1].offset # type_info[2].offset
    /\ type_info[1].offset # 0
    /\ cast.ptr = object_ptr + type_info[1].offset

\* ------------------------------------------------------------------------
\* COM layer (com.rs): ComRefCount and query_interface
\* ------------------------------------------------------------------------

\* most add_ref, release and query_interface calls made one at a time
MaxCalls == 3

\* a u32 is kept as two 16-bit halves, [hi, lo] for hi * 2^16 + lo, so that
\* u32::MAX and the wrap-around of the AtomicU32 stay representable
Half == 65536

\* the u32 of a small natural number
U32(n) == [hi |-> n \div Half, lo |-> n % Half]

\* u32::MAX
U32_MAX == [hi |-> Half - 1, lo |-> Half - 1]

\* the value an AtomicU32 holds after fetch_add(1): wrapping addition
wrapping_add(v) ==
    IF v.lo + 1 < Half
    THEN [v EXCEPT !.lo = @ + 1]
    ELSE [hi |-> (v.hi + 1) % Half, lo |-> 0]

\* the value an AtomicU32 holds after fetch_sub(1): wrapping subtraction
wrapping_sub(v) ==
    IF v.lo > 0
    THEN [v EXCEPT !.lo = @ - 1]
    ELSE [hi |-> (v.hi + Half - 1) % Half, lo |-> Half - 1]

\* numbers of calls are naturals without a width, in the same two-part
\* form with an unbounded hi
Succ(n) ==
    IF n.lo + 1 < Half
    THEN [n EXCEPT !.lo = @ + 1]
    ELSE [hi |-> n.hi + 1, lo |-> 0]

Plus(a, b) ==
    [hi |-> a.hi + b.hi + ((a.lo + b.lo) \div Half), lo |-> (a.lo + b.lo) % Half]

\* HRESULT codes
S_OK == 0

E_NOINTERFACE == -2147467262

E_POINTER == -2147467261

\* GUID { data1, data2, data3, data4 }; == is the derived PartialEq, which
\* compares the four fields
GUID(data1, data2, data3, data4) ==
    [data1 |-> data1, data2 |-> data2, data3 |-> data3, data4 |-> data4]

IID_IUNKNOWN == GUID(0, 0, 0, <<192, 0, 0, 0, 0, 0, 0, 70>>)

\* IID_ICALCULATOR, "12345678-1234-5678-9abc-def012345678"
IID_ICALCULATOR ==
    GUID(305419896, 4660, 22136, <<154, 188, 222, 240, 18, 52, 86, 120>>)

\* the interface identifiers a client asks for: the two the object answers
\* to, the zero GUID, and identifiers that differ from one of the two in a
\* single field
Riids ==
    {IID_IUNKNOWN, IID_ICALCULATOR,
     GUID(0, 0, 0, <<0, 0, 0, 0, 0, 0, 0, 0>>),
     GUID(305419896, 4660, 22136, <<154, 188, 222, 240, 18, 52, 86, 121>>),
     GUID(1, 0, 0, <<192, 0, 0, 0, 0, 0, 0, 70>>)}

Threads == {"t1", "t2"}

\* the calls a thread made and has returned from, or is still inside
NoneYet ==
    [op |-> "none", outcome |-> "none", value |-> U32(0), hr |-> S_OK,
     riid |-> IID_IUNKNOWN, riid_is_null |-> FALSE, ppv_is_null |-> FALSE,
     wrote |-> FALSE,
     ppv |-> NULL, before |-> U32(0), after |-> U32(0),
     add_refs |-> U32(0), releases |-> U32(0)]

\* calls made so far, the loop below apart
CallsMade == calls.started

\* ComRefCount::new() inside a COM object at address `this`, whose vtable
\* pointer field lies at `offset`
InitCom ==
    /\ overflow_checks \in BOOLEAN
    /\ com_object \in {[this |-> 4096, offset |-> o] : o \in {0, 8}}
    /\ ref_count = U32(1)
    /\ pc = [t \in Threads |-> "idle"]
    /\ fetched = [t \in Threads |-> U32(0)]
    /\ result = [t \in Threads |-> NoneYet]
    /\ calls = [add_ref |-> U32(0), release |-> U32(0), started |-> 0]
    /\ target = "x86_64"
    /\ NoGen /\ NoRtti /\ NoCall /\ NoLink /\ NoGuid /\ NoOrder /\ NoVRtti /\ NoHresult /\ NoValidate /\ NoProto

\* add_ref, first half: self.0.fetch_add(1, Ordering::Relaxed)
add_ref_fetch_add(t) ==
    /\ pc[t] = "idle"
    /\ CallsMade < MaxCalls
    /\ ref_count' = wrapping_add(ref_count)
    /\ fetched' = [fetched EXCEPT ![t] = ref_count]
    /\ calls' = [calls EXCEPT !.add_ref = Succ(@), !.started = @ + 1]
    /\ pc' = [pc EXCEPT ![t] = "add_ref"]
    /\ result' = [result EXCEPT ![t] =
            [NoneYet EXCEPT !.op = "add_ref", !.outcome = "running",
                            !.before = ref_count,
                            !.after = wrapping_add(ref_count),
                            !.add_refs = Succ(calls.add_ref),
                            !.releases = calls.release]]
    /\ UNCHANGED <<overflow_checks, com_object, target, protoVars, validateVars, hresultVars, vrttiVars, guidVars, orderVars, genVars, rttiVars,
                   callVars, linkVars>>

\* add_ref, second half: `+ 1` on the fetched value, which overflows when
\* the fetched value is u32::MAX: a panic in a build with overflow checks,
\* a wrap to 0 in a build without
add_ref_return(t) ==
    /\ pc[t] = "add_ref"
    /\ IF fetched[t] = U32_MAX /\ overflow_checks
       THEN /\ pc' = [pc EXCEPT ![t] = "panicked"]
            /\ result' = [result EXCEPT ![t].outcome = "panicked"]
       ELSE /\ pc' = [pc EXCEPT ![t] = "idle"]
            /\ result' = [result EXCEPT ![t].outcome = "returned",
                                        ![t].value = wrapping_add(fetched[t])]
    /\ UNCHANGED <<overflow_checks, com_object, ref_count, fetched, calls,
                   target, protoVars, validateVars, hresultVars, vrttiVars, guidVars, orderVars, genVars, rttiVars, callVars, linkVars>>

\* release, first half: self.0.fetch_sub(1, Ordering::Release)
release_fetch_sub(t) ==
    /\ pc[t] = "idle"
    /\ CallsMade < MaxCalls
    /\ ref_count' = wrapping_sub(ref_count)
    /\ fetched' = [fetched EXCEPT ![t] = ref_count]
    /\ calls' = [calls EXCEPT !.release = Succ(@), !.started = @ + 1]
    /\ pc' = [pc EXCEPT ![t] = "release"]
    /\ result' = [result EXCEPT ![t] =
            [NoneYet EXCEPT !.op = "release", !.outcome = "running",
                            !.before = ref_count,
                            !.after = wrapping_sub(ref_count),
                            !.add_refs = calls.add_ref,
                            !.releases = Succ(calls.release)]]
    /\ UNCHANGED <<overflow_checks, com_object, target, protoVars, validateVars, hresultVars, vrttiVars, guidVars, orderVars, genVars, rttiVars,
                   callVars, linkVars>>

\* release, second half: `- 1` on the fetched value, which overflows when
\* the fetched value is 0
release_return(t) ==
    /\ pc[t] = "release"
    /\ IF fetched[t] = U32(0) /\ overflow_checks
       THEN /\ pc' = [pc EXCEPT ![t] = "panicked"]
            /\ result' = [result EXCEPT ![t].outcome = "panicked"]
       ELSE /\ pc' = [pc EXCEPT ![t] = "idle"]
            /\ result' = [result EXCEPT ![t].outcome = "returned",
                                        ![t].value = wrapping_sub(fetched[t])]
    /\ UNCHANGED <<overflow_checks, com_object, ref_count, fetched, calls,
                   target, protoVars, validateVars, hresultVars, vrttiVars, guidVars, orderVars, genVars, rttiVars, callVars, linkVars>>

\* a thread calls add_ref 2^32 - 2 times in a row, on a counter that is
\* at 1 or below, while no other thread runs: none of these calls wraps
LoopCalls == [hi |-> Half - 1, lo |-> Half - 2]

add_ref_loop(t) ==
    /\ pc[t] = "idle"
    /\ calls.add_ref.hi = 0
    /\ ref_count \in {U32(0), U32(1)}
    /\ ref_count' = Plus(ref_count, LoopCalls)
    /\ calls' = [calls EXCEPT !.add_ref = Plus(@, LoopCalls)]
    /\ result' = [result EXCEPT ![t] =
            [NoneYet EXCEPT !.op = "add_ref", !.outcome = "returned",
                            !.value = Plus(ref_count, LoopCalls),
                            !.before = wrapping_sub(Plus(ref_count, LoopCalls)),
                            !.after = Plus(ref_count, LoopCalls),
                            !.add_refs = Plus(calls.add_ref, LoopCalls),
                            !.releases = calls.release]]
    /\ UNCHANGED <<overflow_checks, com_object, pc, fetched, target, protoVars, validateVars, hresultVars, vrttiVars, guidVars, orderVars, genVars,
                   rttiVars, callVars, linkVars>>

\* a vtable pointer field whose address is null
VTablePtr_Null(obj) == NULL

\* `&self.$vtable_field as *const _ as *mut c_void`
VTablePtr(obj) == obj.this + obj.offset

\* a null check that comes after the add_ref
ppv_is_null_AfterAddRef(t, riid, riid_is_null) ==
    /\ result' = [result EXCEPT ![t] =
            [NoneYet EXCEPT !.op = "query_interface",
                            !.outcome = "returned", !.hr = E_POINTER,
                            !.riid = riid, !.riid_is_null = riid_is_null,
                            !.ppv_is_null = TRUE,
                            !.before = ref_count,
                            !.after = wrapping_add(ref_count)]]
    /\ ref_count' = wrapping_add(ref_count)
    /\ calls' = [calls EXCEPT !.add_ref = Succ(@), !.started = @ + 1]
    /\ UNCHANGED <<pc, fetched>>

\* `if ppv.is_null() { return E_POINTER; }`, before riid is looked at
ppv_is_null(t, riid, riid_is_null) ==
    /\ result' = [result EXCEPT ![t] =
            [NoneYet EXCEPT !.op = "query_interface",
                            !.outcome = "returned", !.hr = E_POINTER,
                            !.riid = riid, !.riid_is_null = riid_is_null,
                            !.ppv_is_null = TRUE,
                            !.before = ref_count, !.after = ref_count]]
    /\ calls' = [calls EXCEPT !.started = @ + 1]
    /\ UNCHANGED <<ref_count, pc, fetched>>

\* query_interface(riid, ppv) up to the fetch_add inside self.add_ref();
\* riid points to a GUID whenever ppv is not null, as the safety contract
\* of the function demands
query_interface(t) ==
    /\ pc[t] = "idle"
    /\ CallsMade < MaxCalls
    /\ \E riid \in Riids, is_null \in BOOLEAN, riid_is_null \in BOOLEAN :
        /\ riid_is_null => (is_null /\ riid = IID_IUNKNOWN)
        /\ IF is_null
           THEN ppv_is_null(t, riid, riid_is_null)
           ELSE IF riid = IID_ICALCULATOR \/ riid = IID_IUNKNOWN
           THEN /\ ref_count' = wrapping_add(ref_count)
                /\ fetched' = [fetched EXCEPT ![t] = ref_count]
                /\ calls' = [calls EXCEPT !.add_ref = Succ(@), !.started = @ + 1]
                /\ pc' = [pc EXCEPT ![t] = "query_interface"]
                /\ result' = [result EXCEPT ![t] =
                       [NoneYet EXCEPT !.op = "query_interface",
                                       !.outcome = "running", !.riid = riid,
                                       !.wrote = TRUE,
                                       !.ppv = VTablePtr(com_object),
                                       !.before = ref_count,
                                       !.after = wrapping_add(ref_count),
                                       !.add_refs = Succ(calls.add_ref),
                                       !.releases = calls.release]]
           ELSE /\ result' = [result EXCEPT ![t] =
                       [NoneYet EXCEPT !.op = "query_interface",
                                       !.outcome = "returned",
                                       !.hr = E_NOINTERFACE, !.riid = riid,
                                       !.wrote = TRUE, !.ppv = NULL,
                                       !.before = ref_count, !.after = ref_count]]
                /\ calls' = [calls EXCEPT !.started = @ + 1]
                /\ UNCHANGED <<ref_count, pc, fetched>>
    /\ UNCHANGED <<overflow_checks, com_object, target, protoVars, validateVars, hresultVars, vrttiVars, guidVars, orderVars, genVars, rttiVars,
                   callVars, linkVars>>

\* query_interface from the `+ 1` of add_ref to `return S_OK`
query_interface_return(t) ==
    /\ pc[t] = "query_interface"
    /\ IF fetched[t] = U32_MAX /\ overflow_checks
       THEN /\ pc' = [pc EXCEPT ![t] = "panicked"]
            /\ result' = [result EXCEPT ![t].outcome = "panicked"]
       ELSE /\ pc' = [pc EXCEPT ![t] = "idle"]
            /\ result' = [result EXCEPT ![t].outcome = "returned",
                                        ![t].hr = S_OK]
    /\ UNCHANGED <<overflow_checks, com_object, ref_count, fetched, calls,
                   target, protoVars, validateVars, hresultVars, vrttiVars, guidVars, orderVars, genVars, rttiVars, callVars, linkVars>>

NextCom ==
    \E t \in Threads :
        \/ add_ref_fetch_add(t)
        \/ add_ref_return(t)
        \/ release_fetch_sub(t)
        \/ release_return(t)
        \/ add_ref_loop(t)
        \/ query_interface(t)
        \/ query_interface_return(t)

SpecCom == InitCom /\ [][NextCom]_vars

\* what the counter holds in every state: 1 + add_ref calls - release
\* calls, modulo 2^32
RefCountModular ==
    LET sum == Plus(ref_count, calls.release)
        expected == Succ(calls.add_ref)
    IN  sum.lo = expected.lo /\ sum.hi % Half = expected.hi % Half

\* the calls that ended, one way or the other
Ended(t, op) == result[t].op = op /\ result[t].outcome \in {"returned", "panicked"}

\* C7: a query_interface call with a non-null out pointer returns S_OK,
\* writes the address of the vtable pointer field (never null) and raises
\* the reference count by exactly 1 when riid is the interface's IID or
\* IID_IUNKNOWN; for any other riid it returns E_NOINTERFACE, writes null
\* and leaves the count as it was.
C7_QueryInterface ==
    \A t \in Threads :
        (Ended(t, "query_interface") /\ ~result[t].ppv_is_null) =>
            IF result[t].riid \in {IID_ICALCULATOR, IID_IUNKNOWN}
            THEN /\ result[t].outcome = "returned"
                 /\ result[t].hr = S_OK
                 /\ result[t].wrote
                 /\ result[t].ppv = com_object.this + com_object.offset
                 /\ result[t].ppv # NULL
                 /\ result[t].after = Succ(result[t].before)
            ELSE /\ result[t].outcome = "returned"
                 /\ result[t].hr = E_NOINTERFACE
                 /\ result[t].wrote
                 /\ result[t].ppv = NULL
                 /\ result[t].after = result[t].before

\* C8: in every state the stored count is 1 + add_ref calls - release
\* calls, and every add_ref or release call returns the count as it was
\* right after its own atomic update.
C8_CountIsBalance ==
    /\ Plus(ref_count, calls.release) = Succ(calls.add_ref)
    /\ \A t \in Threads :
        (Ended(t, "add_ref") \/ Ended(t, "release")) =>
            /\ result[t].outcome = "returned"
            /\ result[t].value = result[t].after

\* C9: a release call that returns 0 is the release that makes the number
\* of release calls equal to the number of add_ref calls plus 1.
C9_ZeroMeansBalanced ==
    \A t \in Threads :
        (result[t].op = "release" /\ result[t].outcome = "returned"
            /\ result[t].value = U32(0)) =>
                result[t].releases = Succ(result[t].add_refs)

\* ------------------------------------------------------------------------
\* Calls through an interface pointer: casts, vtable lookup, trampolines
\* with this-adjustment (cppvtable_impl_internal, multiple inheritance)
\* ------------------------------------------------------------------------

\* the two interfaces of the multiple-inheritance tests, with a mutating
\* method added to the first
IFirst ==
    [config |-> [calling_convention |-> "Thiscall", base_interface |-> None,
                 slot_overrides |-> [x \in {} |-> 0]],
     items |-> <<[name |-> "first_method", attr |-> None],
                 [name |-> "first_value", attr |-> None],
                 [name |-> "set_value", attr |-> None]>>]

ISecond ==
    [config |-> [calling_convention |-> "Thiscall", base_interface |-> None,
                 slot_overrides |-> [x \in {} |-> 0]],
     items |-> <<[name |-> "second_method", attr |-> None],
                 [name |-> "second_value", attr |-> None]>>]

Interfaces == ("IFirst" :> IFirst) @@ ("ISecond" :> ISecond)

\* interface_to_field_name for the interfaces above:
\* "vtable_" followed by the snake case of the interface name
interface_to_field_name(interface) ==
    IF interface = "IFirst" THEN "vtable_i_first" ELSE "vtable_i_second"

\* struct MultiImpl: two vtable pointers and an i32, in any field order
StructFieldOrders ==
    {f \in [1..3 -> {"vtable_i_first", "vtable_i_second", "value"}] :
        \A i, j \in 1..3 : i # j => f[i] # f[j]}

\* size_of and align_of of a field: a pointer, or the i32 `value`
size_of(field, t) == IF field = "value" THEN 4 ELSE PointerSize(t)

AlignUp(n, align) == ((n + align - 1) \div align) * align

\* #[repr(C)]: each field at the next offset aligned for it
RECURSIVE ReprCOffset(_, _, _)
ReprCOffset(fields, k, t) ==
    IF k = 1
    THEN 0
    ELSE AlignUp(ReprCOffset(fields, k - 1, t) + size_of(fields[k - 1], t),
                 size_of(fields[k], t))

\* std::mem::offset_of!(struct, field)
offset_of(fields, field, t) ==
    ReprCOffset(fields, CHOOSE k \in 1..Len(fields) : fields[k] = field, t)

\* most calls made through interface pointers in one run
MaxVTableCalls == 1

\* addresses of the two objects
ObjectAddrs == {4096, 4160}

\* values given to the i32 field
Values == {7, 10}

\* MultiImpl::new(value) at address a: each vtable pointer field points to
\* the static vtable of its interface, the i32 holds `value`
New(a, value, fields, t) ==
    [addr \in {a + offset_of(fields, f, t) : f \in {"vtable_i_first", "vtable_i_second", "value"}} |->
        IF addr = a + offset_of(fields, "vtable_i_first", t)
        THEN [kind |-> "vtable", interface |-> "IFirst", v |-> 0]
        ELSE IF addr = a + offset_of(fields, "vtable_i_second", t)
        THEN [kind |-> "vtable", interface |-> "ISecond", v |-> 0]
        ELSE [kind |-> "i32", interface |-> "", v |-> value]]

\* the static vtable of (MultiImpl, interface): field name -> wrapper
StaticVTable(interface) ==
    cppvtable_impl_internal(cppvtable_impl_impl,
                            Interfaces[interface].items).vtable_entries

\* reading self.value through a receiver: the i32 of the object when the
\* receiver is the address of an object, anything else is not a defined read
ReadValue(mem, fields, obj, t) ==
    LET addr == obj + offset_of(fields, "value", t)
    IN  IF addr \in DOMAIN mem /\ mem[addr].kind = "i32"
        THEN [defined |-> TRUE, v |-> mem[addr].v]
        ELSE [defined |-> FALSE, v |-> 0]

\* the methods of the impl blocks, run on the receiver `obj`
Method(mem, fields, obj, method, val, t) ==
    LET value == ReadValue(mem, fields, obj, t)
    IN  IF method = "first_method" THEN [defined |-> TRUE, v |-> 100]
        ELSE IF method = "second_method" THEN [defined |-> TRUE, v |-> 200]
        ELSE IF method = "first_value" THEN value
        ELSE IF method = "second_value" THEN [value EXCEPT !.v = 2 * @]
        ELSE [defined |-> value.defined, v |-> 0]

\* the memory after the method ran: set_value stores val in self.value
MethodEffect(mem, fields, obj, method, val, t) ==
    LET addr == obj + offset_of(fields, "value", t)
    IN  IF method = "set_value" /\ addr \in DOMAIN mem
        THEN [mem EXCEPT ![addr] = [kind |-> "i32", interface |-> "", v |-> val]]
        ELSE mem

\* a trampoline that hands the interface pointer to the method as it is
this_adjust_None(this, offset) == this

\* let adjusted = (this as *mut u8).sub(offset) as *mut Struct
this_adjust(this, offset) == this - offset

\* the wrapper __Struct__Interface__method(this, args)
Trampoline(mem, fields, interface, method, this, val, t) ==
    LET offset == offset_of(fields, interface_to_field_name(interface), t)
        adjusted == this_adjust(this, offset)
    IN  [receiver |-> adjusted,
         result |-> Method(mem, fields, adjusted, method, val, t),
         memory |-> MethodEffect(mem, fields, adjusted, method, val, t)]

\* I::interface_id_ptr(): the address of the static that identifies I
interface_id_ptr(interface) == <<"&ID", interface>>

\* an InterfaceInfo whose offset is always that of the primary interface
INTERFACE_INFO_ZeroOffset(fields, interface, t) ==
    [interface_id |-> interface_id_ptr(interface), offset |-> 0]

\* the generated const INTERFACE_INFO_<FIELD> of (MultiImpl, interface)
INTERFACE_INFO(fields, interface, t) ==
    [interface_id |-> interface_id_ptr(interface),
     offset |-> offset_of(fields, interface_to_field_name(interface), t)]

\* the type descriptor of MultiImpl: the InterfaceInfo of its impl blocks
MultiImplTypeInfo(fields, t) ==
    <<INTERFACE_INFO(fields, "IFirst", t), INTERFACE_INFO(fields, "ISecond", t)>>

\* the index of a method in the vtable record of its interface
SlotIndex(interface, method) ==
    LET record == VTableStruct(cppvtable_internal(Interfaces[interface].config,
                                                  Interfaces[interface].items))
    IN  CHOOSE k \in 1..Len(record) : record[k] = MethodField(method)

\* ((*self.vtable).method)(self, val): the caller reads the vtable pointer
\* at `this` and calls the function pointer at the method's index in the
\* record of the interface the pointer is typed as; reading a vtable
\* pointer where none is stored is not a defined call
CallVTable(mem, fields, interface, method, this, val, t) ==
    IF this \in DOMAIN mem /\ mem[this].kind = "vtable"
          /\ SlotIndex(interface, method) <= Len(StaticVTable(mem[this].interface))
    THEN Trampoline(mem, fields, mem[this].interface,
            StaticVTable(mem[this].interface)[SlotIndex(interface, method)].value.method,
            this, val, t)
    ELSE [receiver |-> NULL, result |-> [defined |-> FALSE, v |-> 0],
          memory |-> mem]

InitCall ==
    /\ target \in {"x86", "x86_64"}
    /\ struct_fields \in StructFieldOrders
    /\ \E value \in Values :
        memory = New(4096, value, struct_fields, target) @@
                 New(4160, 33, struct_fields, target)
    /\ iface_ptr = [object |-> NULL, interface |-> "", ptr |-> NULL, via |-> ""]
    /\ call = [made |-> FALSE, n |-> 0]
    /\ NoGen /\ NoRtti /\ NoCom /\ NoLink /\ NoGuid /\ NoOrder /\ NoVRtti /\ NoHresult /\ NoValidate /\ NoProto

\* the cast of an object to one of its interfaces: the address of the
\* vtable pointer field of that interface
CastToInterface ==
    \E a \in ObjectAddrs, interface \in DOMAIN Interfaces :
        /\ iface_ptr' = [object |-> a, interface |-> interface,
                         ptr |-> a + offset_of(struct_fields,
                                    interface_to_field_name(interface), target),
                         via |-> "offset_of"]
        /\ UNCHANGED <<target, protoVars, validateVars, hresultVars, vrttiVars, guidVars, orderVars, struct_fields, memory, call, genVars, rttiVars,
                       comVars, linkVars>>

\* the cast of an object to one of its interfaces through its type
\* descriptor: type_info.cast_to(a, I::interface_id_ptr())
CastViaTypeInfo ==
    \E a \in ObjectAddrs, interface \in DOMAIN Interfaces :
        /\ iface_ptr' = [object |-> a, interface |-> interface,
                         ptr |-> cast_to(MultiImplTypeInfo(struct_fields, target),
                                         2, a, interface_id_ptr(interface)),
                         via |-> "cast_to"]
        /\ UNCHANGED <<target, protoVars, validateVars, hresultVars, vrttiVars, guidVars, orderVars, struct_fields, memory, call, genVars, rttiVars,
                       comVars, linkVars>>

\* a call of a method through the interface pointer: the caller reads the
\* vtable pointer, takes the entry of the method and calls it with the
\* interface pointer as `this`
CallThroughVTable ==
    /\ iface_ptr.ptr # NULL
    /\ call.n < MaxVTableCalls
    /\ \E k \in 1..Len(Interfaces[iface_ptr.interface].items), val \in Values :
        LET method == Interfaces[iface_ptr.interface].items[k].name
            ran == CallVTable(memory, struct_fields, iface_ptr.interface,
                              method, iface_ptr.ptr, val, target)
        IN  /\ call' = [made |-> TRUE, n |-> call.n + 1,
                        object |-> iface_ptr.object,
                        interface |-> iface_ptr.interface, method |-> method,
                        val |-> val, this |-> iface_ptr.ptr,
                        via |-> iface_ptr.via,
                        receiver |-> ran.receiver, result |-> ran.result,
                        direct |-> Method(memory, struct_fields,
                                          iface_ptr.object, method, val, target)]
            /\ memory' = ran.memory
    /\ UNCHANGED <<target, protoVars, validateVars, hresultVars, vrttiVars, guidVars, orderVars, struct_fields, iface_ptr, genVars, rttiVars,
                   comVars, linkVars>>

NextCall == CastToInterface \/ CastViaTypeInfo \/ CallThroughVTable

SpecCall == InitCall /\ [][NextCall]_vars

\* C1: a trampoline called with receiver p runs the method on the object
\* at p - o, o being the offset of the interface's vtable pointer field;
\* so a call through the interface pointer a + o of the object at a runs
\* the method on the object at a and returns what the method returns on
\* that object, for the primary interface (o = 0) and for secondary ones.
C1_ThisAdjusted ==
    call.made =>
        LET o == offset_of(struct_fields,
                    interface_to_field_name(call.interface), target)
        IN  /\ call.this = call.object + o
            /\ call.receiver = call.this - o
            /\ call.receiver = call.object
            /\ call.result.defined
            /\ call.result = call.direct
            /\ call.method = "set_value" =>
                    ReadValue(memory, struct_fields, call.object, target) =
                        [defined |-> TRUE, v |-> call.val]

\* a call of second_value through the secondary interface of the second
\* object, whose pointer lies above the object's address, that returned
\* twice the value of that object
C1_Witness ==
    /\ call.made
    /\ call.interface = "ISecond"
    /\ call.method = "second_value"
    /\ call.object = 4160
    /\ call.this > call.object
    /\ call.receiver = 4160
    /\ call.result = [defined |-> TRUE, v |-> 66]

\* ------------------------------------------------------------------------
\* An interface and an implementation of it, compiled together: the static
\* vtable `static VT: IVTable = IVTable { base: ..., field: wrapper, ... }`
\* ------------------------------------------------------------------------

\* most methods of an interface that is implemented
MaxLinkMethods == 4

\* method lists of n methods of which at most one carries #[slot(k)]
LinkItems(n) ==
    {[i \in 1..n |-> [name |-> MethodNames[i],
                      attr |-> IF i = p THEN Some(k) ELSE None]] :
        p \in 0..n, k \in 0..MaxSlot}

\* the interface attributes: #[cppvtable], #[cppvtable(stdcall)],
\* #[cppvtable(extends(IUnknown))], #[cppvtable(stdcall, extends(IUnknown))]
\* and #[com_interface("...")], which has the options of the last
LinkConfigs ==
    {[calling_convention |-> cc, base_interface |-> b,
      slot_overrides |-> [x \in {} |-> 0]] :
        cc \in {"Thiscall", "Stdcall"}, b \in {None, Some("IUnknown")}}

\* the implementation attributes: #[cppvtable_impl(I)] and #[com_implement(I)]
ImplConfigs == {cppvtable_impl_impl, com_implement_internal}

\* the initializer the implementation macro writes: `base: ...` when a base
\* interface is configured, then the entries `field: wrapper`
VTableBody(out) ==
    (IF out.base_vtable_entry # None
     THEN <<[field |-> [kind |-> "base", name |-> Unwrap(out.base_vtable_entry)],
             value |-> [fn |-> "base_vtable"]]>>
     ELSE <<>>) \o out.vtable_entries

\* the function pointers of the record, in memory order: the embedded
\* IUnknown record is its three forwarders, every other field is the
\* value the initializer gives to the field of that name
RECURSIVE SlotsOf(_, _, _)
SlotsOf(fields, body, k) ==
    IF k > Len(fields)
    THEN <<>>
    ELSE (IF fields[k].kind = "base"
          THEN [i \in 1..Len(IUnknown.items) |->
                    [field |-> MethodField(IUnknown.items[i].name),
                     value |-> [fn |-> "forwarder",
                                method |-> IUnknown.items[i].name]]]
          ELSE <<[field |-> fields[k],
                  value |-> body[CHOOSE e \in 1..Len(body) :
                                    body[e].field = fields[k]].value]>>)
         \o SlotsOf(fields, body, k + 1)

\* what rustc makes of the static: a struct expression must name exactly
\* the fields of the record, in any order, and on x86 the wrappers must
\* have the calling convention of the fields
CompileStatic(record, out, t) ==
    IF ~out.ok
    THEN [stage |-> "error", error |-> "slot conflict", slots |-> <<>>]
    ELSE IF {VTableBody(out)[e].field : e \in 1..Len(VTableBody(out))} #
            {record.fields[k] : k \in 1..Len(record.fields)}
    THEN [stage |-> "error", error |-> "missing or unknown field", slots |-> <<>>]
    ELSE IF t = "x86" /\ out.x86_cc # record.x86_cc
    THEN [stage |-> "error", error |-> "mismatched types", slots |-> <<>>]
    ELSE [stage |-> "linked", error |-> "",
          slots |-> SlotsOf(record.fields, VTableBody(out), 1)]

\* a call of the function pointer fn_ptr with some receiver
CallFn(fn_ptr) ==
    IF fn_ptr.fn = "panic"
    THEN [kind |-> "panic", message |-> fn_ptr.message, method |-> ""]
    ELSE [kind |-> "dispatched", message |-> <<>>, method |-> fn_ptr.method]

InitLink ==
    /\ target \in {"x86", "x86_64"}
    /\ vtable_record = [declared |-> FALSE]
    /\ static_vtable = [stage |-> "none", error |-> "", slots |-> <<>>]
    /\ invocation = [made |-> FALSE]
    /\ NoGen /\ NoRtti /\ NoCom /\ NoCall /\ NoGuid /\ NoOrder /\ NoVRtti /\ NoHresult /\ NoValidate /\ NoProto

\* an interface declaration that the interface macro accepts
DeclareInterface ==
    /\ ~vtable_record.declared
    /\ \E config \in LinkConfigs, n \in 0..MaxLinkMethods :
        \E items \in LinkItems(n) :
            LET out == cppvtable_internal(config, items)
            IN  /\ out.ok
                /\ vtable_record' = [declared |-> TRUE, x86_cc |-> out.x86_cc,
                                     methods |-> n, fields |-> VTableStruct(out),
                                     config |-> config, items |-> items]
    /\ UNCHANGED <<target, protoVars, validateVars, hresultVars, vrttiVars, guidVars, orderVars, static_vtable, invocation, genVars, rttiVars,
                   comVars, callVars>>

\* an impl block with the methods of the interface, given to one of the
\* implementation macros, and the compilation of what the macro writes
ImplementInterface ==
    /\ vtable_record.declared
    /\ static_vtable.stage = "none"
    /\ \E config \in ImplConfigs, items \in LinkItems(vtable_record.methods) :
        LET out == cppvtable_impl_internal(config, items)
        IN  static_vtable' = CompileStatic(vtable_record, out, target) @@
                             [first_slot |-> config.first_slot,
                              methods |-> IF out.ok THEN out.methods ELSE <<>>]
    /\ UNCHANGED <<target, protoVars, validateVars, hresultVars, vrttiVars, guidVars, orderVars, vtable_record, invocation, genVars, rttiVars,
                   comVars, callVars>>

\* a call through pointer n of the static vtable, n counted from 0
CallSlot ==
    /\ static_vtable.stage = "linked"
    /\ \E n \in 0..(Len(static_vtable.slots) - 1) :
        invocation' = [made |-> TRUE, slot |-> n,
                       outcome |-> CallFn(static_vtable.slots[n + 1].value)]
    /\ UNCHANGED <<target, protoVars, validateVars, hresultVars, vrttiVars, guidVars, orderVars, vtable_record, static_vtable, genVars, rttiVars,
                   comVars, callVars>>

NextLink == DeclareInterface \/ ImplementInterface \/ CallSlot

SpecLink == InitLink /\ [][NextLink]_vars

\* the reserved slots of the static vtable, as zero-based pointer indices
ReservedSlots ==
    {n \in 0..(Len(static_vtable.slots) - 1) :
        static_vtable.slots[n + 1].field.kind = "reserved"}

\* C6: the function stored at reserved slot N of a static vtable is the
\* placeholder whose message is 'Called reserved vtable slot N', N being
\* the zero-based index of the slot in the vtable, and a call of it with
\* any receiver ends in that panic: it neither returns nor runs a method.
C6_ReservedStub ==
    /\ \A n \in ReservedSlots :
        static_vtable.slots[n + 1].value =
            [fn |-> "panic", message |-> <<"Called reserved vtable slot", n>>]
    /\ (invocation.made /\ invocation.slot \in ReservedSlots) =>
        /\ invocation.outcome.kind = "panic"
        /\ invocation.outcome.message =
                <<"Called reserved vtable slot", invocation.slot>>

\* C11: the offset in the generated InterfaceInfo of (struct, interface)
\* is the offset the trampolines of that pair subtract from the receiver,
\* both being offset_of the vtable pointer field of the interface; so a
\* cast_to with that InterfaceInfo, followed by a call through the vtable,
\* runs the method on the object that was cast.
C11_RttiOffset ==
    (call.made /\ call.via = "cast_to") =>
        /\ INTERFACE_INFO(struct_fields, call.interface, target).offset =
                call.this - call.receiver
        /\ INTERFACE_INFO(struct_fields, call.interface, target).offset =
                offset_of(struct_fields,
                          interface_to_field_name(call.interface), target)
        /\ call.receiver = call.object
        /\ call.result.defined
        /\ call.result = call.direct

\* a call of first_value on the first object after a cast_to to IFirst,
\* in a struct whose IFirst vtable pointer is not its first field
C11_Witness ==
    /\ call.made
    /\ call.via = "cast_to"
    /\ call.interface = "IFirst"
    /\ call.method = "first_value"
    /\ call.object = 4096
    /\ call.this - call.object > 0
    /\ call.receiver = 4096
    /\ call.result.defined
\* ------------------------------------------------------------------------
\* Calling convention
\* ------------------------------------------------------------------------

\* the declared preference of a declaration, as an ABI string
Preference(e) ==
    IF e.config.calling_convention = "Thiscall" THEN "thiscall" ELSE "stdcall"

\* width in bits of a pointer of the build target
PointerWidth(t) == 8 * PointerSize(t)

\* the expansion in hand has gone through the compiler, on either side
Built == expansion.stage = "compiled"

\* C12, as stated: the calling convention of every generated field and
\* trampoline is the unified C convention on a 64-bit target, whatever the
\* preference, and the declared preference unchanged on a 32-bit target
C12_CallingConvention ==
    Built =>
        \A k \in DOMAIN expansion.abi :
            expansion.abi[k] = (IF PointerWidth(target) = 64
                                THEN "C"
                                ELSE Preference(expansion))

\* C12, amended: the calling convention of every generated field and
\* trampoline is a function of the declared preference and the target
\* architecture alone: the declared preference unchanged on x86, where the
\* MSVC conventions differ, and the unified C convention on every other
\* target, of 64 bits or not
C12_CallingConventionByArch ==
    Built =>
        \A k \in DOMAIN expansion.abi :
            expansion.abi[k] = (IF target = "x86"
                                THEN Preference(expansion)
                                ELSE "C")

\* a COM implementation with a reserved stub and a wrapper built for x86
\* keeps stdcall on both
C12_Witness ==
    /\ Built
    /\ target = "x86"
    /\ expansion.macro = "com_implement"
    /\ Len(expansion.abi) = 2
    /\ expansion.out.vtable_entries[1].value.fn = "panic"
    /\ \A k \in DOMAIN expansion.abi : expansion.abi[k] = "stdcall"

\* ------------------------------------------------------------------------
\* Interface identifiers from GUID strings
\* ------------------------------------------------------------------------

HexChars == "0123456789abcdef"

UpperHexChars == "0123456789ABCDEF"

\* the character at position i of a string, counted from 1
CharAt(s, i) == SubSeq(s, i, i)

\* position of a character in a string, counted from 0
RECURSIVE IndexIn(_, _, _)
IndexIn(chars, c, i) ==
    IF i > Len(chars)
    THEN None
    ELSE IF CharAt(chars, i) = c THEN Some(i - 1) ELSE IndexIn(chars, c, i + 1)

\* char::to_digit(16), as from_str_radix applies it to each character
to_digit(c) ==
    IF IndexIn(HexChars, c, 1) # None
    THEN IndexIn(HexChars, c, 1)
    ELSE IndexIn(UpperHexChars, c, 1)

\* the value fits the unsigned integer type of the given width
Fits(v, bits) ==
    CASE bits = 8 -> v.hi = 0 /\ v.lo < 256
      [] bits = 16 -> v.hi = 0
      [] OTHER -> v.hi < Half

\* the digit loop of from_str_radix: result = result * 16 + digit, checked
RECURSIVE Accumulate(_, _, _, _)
Accumulate(digits, i, acc, bits) ==
    IF i > Len(digits)
    THEN Some(acc)
    ELSE LET d == to_digit(CharAt(digits, i))
         IN  IF d = None
             THEN None
             ELSE LET lo == acc.lo * 16 + Unwrap(d)
                      next == [hi |-> (acc.hi * 16) + (lo \div Half), lo |-> lo % Half]
                  IN  IF Fits(next, bits)
                      THEN Accumulate(digits, i + 1, next, bits)
                      ELSE None

\* u8 / u16 / u32 ::from_str_radix(src, 16): the empty string and a lone
\* sign are errors, a leading '+' is skipped, '-' is no digit of an unsigned
\* type, and a value that does not fit is an error
from_str_radix(src, bits) ==
    IF src = ""
    THEN None
    ELSE IF src \in {"+", "-"}
         THEN None
         ELSE Accumulate(IF CharAt(src, 1) = "+" THEN Tail(src) ELSE src,
                         1, U32(0), bits)

Whitespace == {" ", "\t", "\n"}

RECURSIVE trim_start(_)
trim_start(s) ==
    IF s # "" /\ CharAt(s, 1) \in Whitespace THEN trim_start(Tail(s)) ELSE s

RECURSIVE trim_end(_)
trim_end(s) ==
    IF s # "" /\ CharAt(s, Len(s)) \in Whitespace
    THEN trim_end(SubSeq(s, 1, Len(s) - 1))
    ELSE s

\* str::trim
trim(s) == trim_end(trim_start(s))

\* s.split('-') from position i on, the current part starting at `start`
RECURSIVE SplitFrom(_, _, _)
SplitFrom(s, start, i) ==
    IF i > Len(s)
    THEN <<SubSeq(s, start, Len(s))>>
    ELSE IF CharAt(s, i) = "-"
         THEN <<SubSeq(s, start, i - 1)>> \o SplitFrom(s, i + 1, i + 1)
         ELSE SplitFrom(s, start, i + 1)

\* s.split('-').collect()
split(s) == SplitFrom(s, 1, 1)

\* the bytes u8::from_str_radix gives for the two-character pieces of a
\* part, from piece i on; None when one of them fails
RECURSIVE BytesOf(_, _)
BytesOf(part, i) ==
    IF 2 * i > Len(part)
    THEN Some(<<>>)
    ELSE LET byte == from_str_radix(SubSeq(part, 2 * i - 1, 2 * i), 8)
             rest == BytesOf(part, i + 1)
         IN  IF byte = None \/ rest = None
             THEN None
             ELSE Some(<<Unwrap(byte).lo>> \o Unwrap(rest))

ParseError(what) == [ok |-> FALSE, error |-> what]

\* parse_guid_string(s): Ok((data1, data2, data3, data4)) or Err(message)
parse_guid_string(s) ==
    LET parts == split(trim(s))
    IN  IF Len(parts) # 5
        THEN ParseError("Invalid GUID format")
        ELSE
        LET data1 == from_str_radix(parts[1], 32)
            data2 == from_str_radix(parts[2], 16)
            data3 == from_str_radix(parts[3], 16)
            first == BytesOf(parts[4], 1)
            second == BytesOf(parts[5], 1)
        IN  IF data1 = None THEN ParseError("Invalid GUID data1")
            ELSE IF data2 = None THEN ParseError("Invalid GUID data2")
            ELSE IF data3 = None THEN ParseError("Invalid GUID data3")
            ELSE IF Len(parts[4]) # 4
                 THEN ParseError("Invalid GUID data4 first part")
            ELSE IF Len(parts[5]) # 12
                 THEN ParseError("Invalid GUID data4 second part")
            ELSE IF first = None \/ second = None
                 THEN ParseError("Invalid GUID data4")
            ELSE [ok |-> TRUE,
                  data1 |-> Unwrap(data1),
                  data2 |-> Unwrap(data2).lo,
                  data3 |-> Unwrap(data3).lo,
                  data4 |-> Unwrap(first) \o Unwrap(second)]

\* {:0width$X} of a number below 2^16
RECURSIVE UpperHex(_, _)
UpperHex(n, width) ==
    IF n < 16 /\ width <= 1
    THEN CharAt(UpperHexChars, n + 1)
    ELSE UpperHex(n \div 16, width - 1) \o CharAt(UpperHexChars, (n % 16) + 1)

\* {:0width$x} of a number below 2^16
RECURSIVE LowerHex(_, _)
LowerHex(n, width) ==
    IF n < 16 /\ width <= 1
    THEN CharAt(HexChars, n + 1)
    ELSE LowerHex(n \div 16, width - 1) \o CharAt(HexChars, (n % 16) + 1)

\* {:08x} of a u32
LowerHex32(v) ==
    IF v.hi = 0 THEN LowerHex(v.lo, 8) ELSE LowerHex(v.hi, 4) \o LowerHex(v.lo, 4)

\* {:08X} of a u32
UpperHex32(v) ==
    IF v.hi = 0 THEN UpperHex(v.lo, 8) ELSE UpperHex(v.hi, 4) \o UpperHex(v.lo, 4)

\* impl Debug for GUID, in the place of Display: braces and upper case
Display_AsDebug(g) ==
    "{" \o UpperHex32(g.data1) \o "-" \o UpperHex(g.data2, 4) \o "-" \o
    UpperHex(g.data3, 4) \o "-" \o
    UpperHex(g.data4[1], 2) \o UpperHex(g.data4[2], 2) \o "-" \o
    UpperHex(g.data4[3], 2) \o UpperHex(g.data4[4], 2) \o
    UpperHex(g.data4[5], 2) \o UpperHex(g.data4[6], 2) \o
    UpperHex(g.data4[7], 2) \o UpperHex(g.data4[8], 2) \o "}"

\* impl Display for GUID
Display(g) ==
    LowerHex32(g.data1) \o "-" \o LowerHex(g.data2, 4) \o "-" \o
    LowerHex(g.data3, 4) \o "-" \o
    LowerHex(g.data4[1], 2) \o LowerHex(g.data4[2], 2) \o "-" \o
    LowerHex(g.data4[3], 2) \o LowerHex(g.data4[4], 2) \o
    LowerHex(g.data4[5], 2) \o LowerHex(g.data4[6], 2) \o
    LowerHex(g.data4[7], 2) \o LowerHex(g.data4[8], 2)

\* the string literals handed to #[com_interface("...")]: five groups from
\* the sets below joined by hyphens, bare or with characters around them,
\* and strings with a group less or a group more
Group1 ==
    {"12345678", "00000000", "ffffffff", "ABCDEF01", "1", "012345678",
     "123456789", "+1234567", "1234567g"}

Group2 == {"1234", "ffff", "12", "+123"}

Group3 == {"5678", "0000", "56g8"}

Group4 == {"9abc", "00ff", "9ab", "+abc", "9abcd"}

Group5 ==
    {"def012345678", "000000000000", "def01234567", "+ef012345678",
     "def0-2345678"}

Around == {<<"", "">>, <<" ", "">>, <<"", "\n">>, <<"{", "}">>}

GuidStrings ==
    {w[1] \o a \o "-" \o b \o "-" \o c \o "-" \o d \o "-" \o e \o w[2] :
        a \in Group1, b \in Group2, c \in Group3, d \in Group4, e \in Group5,
        w \in Around}
    \cup {a \o "-" \o b \o "-" \o d \o "-" \o e :
            a \in Group1, b \in Group2, d \in Group4, e \in Group5}
    \cup {"", "-", "----", "12345678123456789abcdef012345678"}

InitGuid ==
    /\ guid_str \in GuidStrings
    /\ iid = [parsed |-> FALSE]
    /\ shown = ""
    /\ target = "x86_64"
    /\ NoGen /\ NoRtti /\ NoCom /\ NoCall /\ NoLink /\ NoOrder /\ NoVRtti /\ NoHresult /\ NoValidate /\ NoProto

\* #[com_interface("guid_str")]: the literal is parsed; an error becomes a
\* compile error, a result becomes the GUID of the interface
com_interface_iid ==
    /\ ~iid.parsed
    /\ iid' = [parsed |-> TRUE, result |-> parse_guid_string(guid_str)]
    /\ UNCHANGED <<guid_str, shown, target, protoVars, validateVars, hresultVars, vrttiVars, orderVars, genVars, rttiVars, comVars,
                   callVars, linkVars>>

\* format!("{}", I::iid())
DisplayIid ==
    /\ iid.parsed
    /\ iid.result.ok
    /\ shown = ""
    /\ shown' = Display(GUID(iid.result.data1, iid.result.data2,
                             iid.result.data3, iid.result.data4))
    /\ UNCHANGED <<guid_str, iid, target, protoVars, validateVars, hresultVars, vrttiVars, orderVars, genVars, rttiVars, comVars,
                   callVars, linkVars>>

NextGuid == com_interface_iid \/ DisplayIid

SpecGuid == InitGuid /\ [][NextGuid]_vars

\* the groups of a string: its parts between hyphens
Groups(s) == split(s)

\* every character of the string is a hexadecimal digit
AllHex(s) ==
    \A i \in 1..Len(s) :
        \E k \in 1..16 : CharAt(s, i) \in {CharAt(HexChars, k), CharAt(UpperHexChars, k)}

\* the string is five groups of 8, 4, 4, 4 and 12 hexadecimal digits
IsGuidShape(s) ==
    /\ Len(Groups(s)) = 5
    /\ Len(Groups(s)[1]) = 8
    /\ Len(Groups(s)[2]) = 4
    /\ Len(Groups(s)[3]) = 4
    /\ Len(Groups(s)[4]) = 4
    /\ Len(Groups(s)[5]) = 12
    /\ \A k \in 1..5 : AllHex(Groups(s)[k])

\* C13: a string is accepted only if it consists of exactly five
\* hyphen-separated groups of 8, 4, 4, 4 and 12 hexadecimal digits; every
\* other string is rejected with a parse error
C13_OnlyGuidShape ==
    iid.parsed => (iid.result.ok => IsGuidShape(guid_str))

\* the value of a lower-case hexadecimal digit
HexValue(c) == CHOOSE k \in 0..15 : CharAt(HexChars, k + 1) = c

\* the byte written by the i-th pair of digits of a group
ByteAt(group, i) ==
    16 * HexValue(CharAt(group, 2 * i - 1)) + HexValue(CharAt(group, 2 * i))

\* a canonical lower-case GUID string
IsCanonical(s) ==
    /\ IsGuidShape(s)
    /\ \A i \in 1..Len(s) :
            CharAt(s, i) = "-" \/ \E k \in 1..16 : CharAt(s, i) = CharAt(HexChars, k)

\* C14: parsing a canonical lower-case GUID string succeeds, data4[0..2]
\* are the bytes of the fourth group and data4[2..8] those of the fifth,
\* Display of the parsed components is the string itself, and
\* "12345678-1234-5678-9abc-def012345678" yields 0x12345678, 0x1234, 0x5678
\* and the bytes 9a bc de f0 12 34 56 78
C14_RoundTrip ==
    (iid.parsed /\ IsCanonical(guid_str)) =>
        /\ iid.result.ok
        /\ Len(iid.result.data4) = 8
        /\ \A i \in 1..2 : iid.result.data4[i] = ByteAt(Groups(guid_str)[4], i)
        /\ \A i \in 1..6 : iid.result.data4[2 + i] = ByteAt(Groups(guid_str)[5], i)
        /\ (shown # "" => shown = guid_str)
        /\ (guid_str = "12345678-1234-5678-9abc-def012345678" =>
                /\ iid.result.data1 = [hi |-> 4660, lo |-> 22136]
                /\ iid.result.data2 = 4660
                /\ iid.result.data3 = 22136
                /\ iid.result.data4 = <<154, 188, 222, 240, 18, 52, 86, 120>>)

\* the identifier of the COM tests, parsed and shown again
C14_Witness ==
    /\ guid_str = "12345678-1234-5678-9abc-def012345678"
    /\ iid.parsed
    /\ iid.result.ok
    /\ iid.result.data4[3] = 222
    /\ shown = "12345678-1234-5678-9abc-def012345678"

\* ------------------------------------------------------------------------
\* Result codes and the out location of query_interface
\* ------------------------------------------------------------------------

\* thread t made a query_interface call that returned
Returned(t) == result[t].op = "query_interface" /\ result[t].outcome = "returned"

\* C15: on every return path of query_interface a success code never comes
\* with a null pointer in the out location, and a write to the out location
\* always comes with the result code of that call: S_OK with the non-null
\* pointer, E_NOINTERFACE with null
C15_ResultAndOutPointer ==
    \A t \in Threads :
        Returned(t) =>
            /\ result[t].hr \in {S_OK, E_NOINTERFACE, E_POINTER}
            /\ (result[t].hr = S_OK => (result[t].wrote /\ result[t].ppv # NULL))
            /\ (result[t].wrote =>
                    \/ (result[t].hr = S_OK /\ result[t].ppv # NULL)
                    \/ (result[t].hr = E_NOINTERFACE /\ result[t].ppv = NULL))

\* one thread got S_OK and the address of the vtable pointer field, the
\* other E_NOINTERFACE and null
C15_Witness ==
    /\ Returned("t1") /\ Returned("t2")
    /\ result["t1"].hr = S_OK
    /\ result["t1"].ppv = 4104
    /\ result["t2"].hr = E_NOINTERFACE
    /\ result["t2"].wrote
    /\ result["t2"].ppv = NULL

\* C16: a query_interface call with a null out pointer returns E_POINTER,
\* writes nothing, does not crash and leaves the reference count as it
\* was, whatever riid is
C16_NullOutPointer ==
    \A t \in Threads :
        (result[t].op = "query_interface" /\ result[t].ppv_is_null) =>
            /\ result[t].outcome = "returned"
            /\ result[t].hr = E_POINTER
            /\ ~result[t].wrote
            /\ result[t].after = result[t].before

\* two calls with a null out pointer, one of them with a null riid as
\* well, on a counter that another call had raised to 2
C16_Witness ==
    /\ result["t1"].op = "query_interface" /\ result["t1"].ppv_is_null
    /\ result["t1"].riid_is_null
    /\ result["t1"].hr = E_POINTER
    /\ result["t1"].before = U32(2)
    /\ ref_count = U32(2)

\* ------------------------------------------------------------------------
\* Memory ordering of the reference counter
\* ------------------------------------------------------------------------

MaxWrites == 1

Holders == {"t1", "t2", "t3"}

\* fetch_sub with an ordering that acquires as well: the thread takes over
\* the view of the value it read
AfterFetchSub_AcqRel(view, message) == view \cup message

\* the view of a thread after self.0.fetch_sub(1, Ordering::Release): the
\* load of a read-modify-write with Release ordering is relaxed, so the
\* view released with the value it read is not taken over
AfterFetchSub(view, message) == view

\* the first holder has the object, with ComRefCount::new()
InitOrder ==
    /\ atomic = [value |-> 1, view |-> {}]
    /\ views = [t \in Holders |-> {}]
    /\ holder = [t \in Holders |-> IF t = "t1" THEN "holding" ELSE "none"]
    /\ written = [t \in Holders |-> 0]
    /\ seen = [t \in Holders |-> {}]
    /\ target = "x86_64"
    /\ NoGen /\ NoRtti /\ NoCom /\ NoCall /\ NoLink /\ NoGuid /\ NoVRtti /\ NoHresult /\ NoValidate /\ NoProto

\* a holder calls add_ref, fetch_add(1, Ordering::Relaxed), and hands the
\* pointer to a thread without a reference; the handing over synchronises,
\* the relaxed fetch_add leaves all views as they are
share(t, u) ==
    /\ holder[t] = "holding"
    /\ holder[u] = "none"
    /\ atomic' = [atomic EXCEPT !.value = @ + 1]
    /\ holder' = [holder EXCEPT ![u] = "holding"]
    /\ views' = [views EXCEPT ![u] = @ \cup views[t]]
    /\ UNCHANGED <<written, seen, target, protoVars, validateVars, hresultVars, vrttiVars, genVars, rttiVars, comVars, callVars,
                   linkVars, guidVars>>

\* a holder writes to the object
write(t) ==
    /\ holder[t] = "holding"
    /\ written[t] < MaxWrites
    /\ written' = [written EXCEPT ![t] = @ + 1]
    /\ views' = [views EXCEPT ![t] = @ \cup {<<t, written[t] + 1>>}]
    /\ UNCHANGED <<atomic, holder, seen, target, protoVars, validateVars, hresultVars, vrttiVars, genVars, rttiVars, comVars,
                   callVars, linkVars, guidVars>>

\* release: fetch_sub(1, Ordering::Release) - 1; the store releases the
\* view of the thread, on top of what earlier stores of the release
\* sequence released
release(t) ==
    /\ holder[t] = "holding"
    /\ atomic' = [value |-> atomic.value - 1, view |-> atomic.view \cup views[t]]
    /\ views' = [views EXCEPT ![t] = AfterFetchSub(@, atomic.view)]
    /\ holder' = [holder EXCEPT ![t] = IF atomic.value - 1 = 0 THEN "zero" ELSE "released"]
    /\ UNCHANGED <<written, seen, target, protoVars, validateVars, hresultVars, vrttiVars, genVars, rttiVars, comVars, callVars,
                   linkVars, guidVars>>

\* all writes made to the object so far
WritesMade == {w \in Holders \X (1..MaxWrites) : w[2] <= written[w[1]]}

\* the thread whose release returned 0 destroys the object and reads what
\* was written to it: a write outside its view races with the read, which
\* may or may not see it
destroy(t) ==
    /\ holder[t] = "zero"
    /\ \E racy \in SUBSET (WritesMade \ views[t]) :
        seen' = [seen EXCEPT ![t] = views[t] \cup racy]
    /\ holder' = [holder EXCEPT ![t] = "destroyed"]
    /\ UNCHANGED <<atomic, views, written, target, protoVars, validateVars, hresultVars, vrttiVars, genVars, rttiVars, comVars,
                   callVars, linkVars, guidVars>>

NextOrder ==
    \E t \in Holders :
        \/ \E u \in Holders : share(t, u)
        \/ write(t)
        \/ release(t)
        \/ destroy(t)

SpecOrder == InitOrder /\ [][NextOrder]_vars

\* C17: a thread whose release observes the post-decrement value 0 is
\* guaranteed to see all writes made before their own release by every
\* thread that held a reference
C17_ZeroSeesAllWrites ==
    \A t \in Holders :
        /\ (holder[t] \in {"zero", "destroyed"} => WritesMade \subseteq views[t])
        /\ (holder[t] = "destroyed" => seen[t] = WritesMade)

\* ------------------------------------------------------------------------
\* TypeInfo::implements
\* ------------------------------------------------------------------------

\* C18: implements(id) is true if and only if some entry of the descriptor
\* has an identifier pointer-identical to id; it is false for an empty
\* descriptor, and true exactly for the identifiers for which cast_to, on a
\* live object, finds a matching entry
C18_Implements ==
    cast.asked =>
        /\ cast.implements <=> (Matching # {})
        /\ (Len(type_info) = 0 => ~cast.implements)
        /\ cast.implements <=>
                (cast_to(type_info, Len(type_info), object_ptr, cast.interface_id) # NULL)

\* the identifier asked for is that of the second entry and not of the first
C18_Witness ==
    /\ cast.asked
    /\ Len(type_info) = 2
    /\ type_info[1].interface_id # cast.interface_id
    /\ type_info[2].interface_id = cast.interface_id
    /\ cast.implements

\* ------------------------------------------------------------------------
\* Slot numbering of interfaces with a base
\* ------------------------------------------------------------------------

\* the expansion in hand is an interface declaration with a base interface
ExtendsBase ==
    /\ Expanded
    /\ expansion.side = "interface"
    /\ expansion.config.base_interface # None

\* the slot count B of the base interface of the declaration
BaseSlotCount == layouts[Unwrap(expansion.config.base_interface)].SLOT_COUNT

\* C19: when an interface declares a base interface with slot count B > 0,
\* slot resolution starts with next free slot B: a declaration with a
\* method whose explicit slot index is less than B is rejected, and the
\* error of the first such method says the slot belongs to the base
\* interface
C19_StartsAtBaseCount ==
    ExtendsBase =>
        \A i \in 1..Len(expansion.items) :
            (/\ DeclaredSlot(expansion, i) # None
             /\ Unwrap(DeclaredSlot(expansion, i)) < BaseSlotCount) =>
                /\ ~expansion.out.ok
                /\ (\A j \in 1..(i - 1) : DeclaredSlot(expansion, j) = None) =>
                        /\ expansion.out.kind = "base"
                        /\ expansion.out.method = expansion.items[i].name

\* the declared interface extends IUnknown, as every COM interface does
ExtendsIUnknown ==
    /\ vtable_record.declared
    /\ vtable_record.config.base_interface = Some("IUnknown")

\* the fields of the declared record as one pointer each, in memory order:
\* the three of the embedded IUnknown record, then the own fields
RecordPointers ==
    [i \in 1..Len(IUnknown.items) |-> MethodField(IUnknown.items[i].name)] \o
    SubSeq(vtable_record.fields, 2, Len(vtable_record.fields))

\* zero-based pointer index of a field in a sequence of pointers
PointerIndex(pointers, field) ==
    (CHOOSE n \in 1..Len(pointers) : pointers[n] = field) - 1

\* the fields of the static vtable, one pointer each, in memory order
StaticPointers == [n \in 1..Len(static_vtable.slots) |-> static_vtable.slots[n].field]

\* C20: in an interface that extends a base with B = 3 slots the own
\* methods occupy the absolute slots from 3 on, a #[slot(k)] names absolute
\* slot k of the whole vtable, counted from the base's slot 0, so the method
\* sits at pointer index k of the record and only the unassigned slots from
\* 3 to k - 1 are dummies, and com_implement places each method at the
\* pointer index the interface definition gives it
C20_AbsoluteSlots ==
    ExtendsIUnknown =>
        /\ \A i \in 1..Len(vtable_record.items) :
            LET item == vtable_record.items[i]
                at == PointerIndex(RecordPointers, MethodField(item.name))
            IN  /\ at >= 3
                /\ (item.attr # None /\ Unwrap(item.attr) >= 3) =>
                        /\ at = Unwrap(item.attr)
                        /\ \A n \in 0..(Len(RecordPointers) - 1) :
                            RecordPointers[n + 1].kind = "reserved" =>
                                (3 <= n /\ n < Unwrap(item.attr))
        /\ (static_vtable.stage = "linked" /\ static_vtable.first_slot = 3) =>
            \A j \in 1..Len(static_vtable.methods) :
                LET field == MethodField(static_vtable.methods[j].name)
                IN  /\ PointerIndex(StaticPointers, field) = static_vtable.methods[j].slot
                    /\ PointerIndex(StaticPointers, field) =
                            PointerIndex(RecordPointers, field)

\* ------------------------------------------------------------------------
\* VTableWithRtti: the type descriptor at slot -1
\* ------------------------------------------------------------------------

MaxRttiMethods == 2

\* the &'static TypeInfo given to VTableWithRtti::new
TypeInfoRefs == {"&TYPE_INFO_A", "&TYPE_INFO_B"}

\* the function pointers of a vtable record T
FnPtrs == {"dummy", "method1"}

\* the vtable records T: #[repr(C)] structs of up to MaxRttiMethods
\* function pointers
VTableRecords == UNION {[1..n -> FnPtrs] : n \in 0..MaxRttiMethods}

\* align_of::<T>() of a record of function pointers
align_of_record(methods, t) == IF Len(methods) = 0 THEN 1 ELSE PointerSize(t)

\* offset_of!(VTableWithRtti<T>, methods) under #[repr(C)]: behind the
\* rtti pointer, at the next offset aligned for T
methods_offset(methods, t) == AlignUp(PointerSize(t), align_of_record(methods, t))

\* VTableWithRtti::new(rtti, methods), placed at address `at`: the cells of
\* the value in memory
VTableWithRtti_new(at, rtti, methods, t) ==
    [at |-> at,
     rtti |-> rtti,
     methods |-> methods,
     cells |-> (at :> [kind |-> "rtti", v |-> rtti]) @@
               [a \in {at + methods_offset(methods, t) + (i - 1) * PointerSize(t) :
                        i \in 1..Len(methods)} |->
                    [kind |-> "fn",
                     v |-> methods[((a - at - methods_offset(methods, t))
                                        \div PointerSize(t)) + 1]]]]

\* vtable_ptr(): &self.methods
vtable_ptr(v, t) == v.at + methods_offset(v.methods, t)

\* a get_type_info that reads slot 0
get_type_info_SlotZero(cells, ptr, t) ==
    IF ptr \in DOMAIN cells /\ cells[ptr].kind = "rtti"
    THEN [defined |-> TRUE, type_info |-> cells[ptr].v]
    ELSE [defined |-> FALSE, type_info |-> ""]

\* get_type_info(vtable_ptr): the pointer read at
\* (vtable_ptr as *const *const TypeInfo).offset(-1); a read of anything
\* but a stored descriptor pointer is undefined
get_type_info(cells, ptr, t) ==
    IF (ptr - PointerSize(t)) \in DOMAIN cells /\ cells[ptr - PointerSize(t)].kind = "rtti"
    THEN [defined |-> TRUE, type_info |-> cells[ptr - PointerSize(t)].v]
    ELSE [defined |-> FALSE, type_info |-> ""]

InitVRtti ==
    /\ target \in Targets
    /\ vtable_with_rtti = [built |-> FALSE]
    /\ got_type_info = [called |-> FALSE]
    /\ NoGen /\ NoRtti /\ NoCom /\ NoCall /\ NoLink /\ NoGuid /\ NoOrder /\ NoHresult /\ NoValidate /\ NoProto

\* let vtable = VTableWithRtti::new(rtti, methods)
NewVTableWithRtti ==
    /\ ~vtable_with_rtti.built
    /\ \E at \in ObjectPtrs, rtti \in TypeInfoRefs, methods \in VTableRecords :
        vtable_with_rtti' =
            [built |-> TRUE] @@ VTableWithRtti_new(at, rtti, methods, target)
    /\ UNCHANGED <<got_type_info, target, protoVars, validateVars, hresultVars, genVars, rttiVars, comVars, callVars,
                   linkVars, guidVars, orderVars>>

\* get_type_info(vtable.vtable_ptr() as *const c_void)
GetTypeInfo ==
    /\ vtable_with_rtti.built
    /\ ~got_type_info.called
    /\ got_type_info' =
            [called |-> TRUE,
             vtable_ptr |-> vtable_ptr(vtable_with_rtti, target),
             read |-> get_type_info(vtable_with_rtti.cells,
                                    vtable_ptr(vtable_with_rtti, target), target)]
    /\ UNCHANGED <<vtable_with_rtti, target, protoVars, validateVars, hresultVars, genVars, rttiVars, comVars, callVars,
                   linkVars, guidVars, orderVars>>

NextVRtti == NewVTableWithRtti \/ GetTypeInfo

SpecVRtti == InitVRtti /\ [][NextVRtti]_vars

\* C21: for every vtable built as VTableWithRtti::new(rtti, methods) the
\* pointer vtable_ptr() addresses slot 0 of the methods, the descriptor
\* pointer is stored exactly one pointer size before that address, and
\* get_type_info(vtable_ptr()) returns the descriptor given to new
C21_RttiAtSlotMinusOne ==
    got_type_info.called =>
        LET v == vtable_with_rtti
            p == got_type_info.vtable_ptr
        IN  /\ \A i \in 1..Len(v.methods) :
                /\ (p + (i - 1) * PointerSize(target)) \in DOMAIN v.cells
                /\ v.cells[p + (i - 1) * PointerSize(target)] =
                        [kind |-> "fn", v |-> v.methods[i]]
            /\ (p - PointerSize(target)) \in DOMAIN v.cells
            /\ v.cells[p - PointerSize(target)] = [kind |-> "rtti", v |-> v.rtti]
            /\ got_type_info.read.defined
            /\ got_type_info.read.type_info = v.rtti

\* a record of two different function pointers on a 32-bit target, and the
\* second descriptor read back
C21_Witness ==
    /\ got_type_info.called
    /\ target = "x86"
    /\ vtable_with_rtti.methods = <<"method1", "dummy">>
    /\ vtable_with_rtti.rtti = "&TYPE_INFO_B"
    /\ got_type_info.vtable_ptr = vtable_with_rtti.at + 4
    /\ got_type_info.read.type_info = "&TYPE_INFO_B"

\* ------------------------------------------------------------------------
\* What the implementation macro emits for RTTI
\* ------------------------------------------------------------------------

\* the expansion in hand is an accepted implementation
ImplAccepted == Expanded /\ expansion.side = "impl" /\ expansion.out.ok

\* C22: for every struct with implementations generated by the
\* implementation macro the generator emits one InterfaceInfo record for
\* the (struct, interface) pair and one aggregate TypeInfo for the struct
\* that lists the InterfaceInfo records of its interfaces
C22_TypeInfoEmitted ==
    (ImplAccepted /\ expansion.macro = "cppvtable_impl") =>
        /\ "INTERFACE_INFO const" \in expansion.emitted
        /\ \E item \in expansion.emitted : item \in {"TYPE_INFO const", "TYPE_INFO static"}

\* ------------------------------------------------------------------------
\* HRESULT
\* ------------------------------------------------------------------------

\* `v as i32` of a u32: the same 32 bits in two's complement
as_i32(v) ==
    IF v.hi >= Half \div 2
    THEN (v.hi - Half) * Half + v.lo
    ELSE v.hi * Half + v.lo

S_FALSE == as_i32([hi |-> 0, lo |-> 1])

\* 0x8000_4005_u32 as i32
E_FAIL == as_i32([hi |-> 32768, lo |-> 16389])

\* 0x8007_000E_u32 as i32
E_OUTOFMEMORY == as_i32([hi |-> 32775, lo |-> 14])

\* 0x8007_0057_u32 as i32
E_INVALIDARG == as_i32([hi |-> 32775, lo |-> 87])

\* 0x8000_4001_u32 as i32
E_NOTIMPL == as_i32([hi |-> 32768, lo |-> 16385])

\* a `succeeded` that wants a positive code
succeeded_Positive(code) == code > 0

\* succeeded(hr): hr >= 0
succeeded(code) == code >= 0

\* failed(hr): hr < 0
failed(code) == code < 0

\* the result codes looked at: the two ends of each half of the range, the
\* reserved codes and their neighbours
Words ==
    {[hi |-> h, lo |-> l] :
        h \in {0, 1, 32767, 32768, 32775, 65535},
        l \in {0, 1, 2, 14, 87, 16384, 16385, 16386, 16387, 16388, 16389,
               32767, 32768, 65534, 65535}}

InitHresult ==
    /\ word \in Words
    /\ hr = as_i32(word)
    /\ checked = [done |-> FALSE]
    /\ target = "x86_64"
    /\ NoGen /\ NoRtti /\ NoCom /\ NoCall /\ NoLink /\ NoGuid /\ NoOrder /\ NoVRtti /\ NoValidate /\ NoProto

\* succeeded(hr) and failed(hr)
Check ==
    /\ ~checked.done
    /\ checked' = [done |-> TRUE, succeeded |-> succeeded(hr), failed |-> failed(hr)]
    /\ UNCHANGED <<word, hr, target, protoVars, validateVars, genVars, rttiVars, comVars, callVars, linkVars,
                   guidVars, orderVars, vrttiVars>>

NextHresult == Check

SpecHresult == InitHresult /\ [][NextHresult]_vars

\* the reserved error codes, as the u32 literals they are written as
ErrorWords ==
    {[hi |-> 32768, lo |-> 16386], [hi |-> 32768, lo |-> 16387],
     [hi |-> 32768, lo |-> 16389], [hi |-> 32775, lo |-> 14],
     [hi |-> 32775, lo |-> 87], [hi |-> 32768, lo |-> 16385]}

\* C23: for every 32-bit HRESULT exactly one of succeeded and failed holds,
\* succeeded holds iff the value is not negative as a signed number, that
\* is iff its top bit is clear, S_OK and S_FALSE succeed, and each reserved
\* error code, a u32 with the top bit set cast to i32, is negative and fails
C23_SucceededOrFailed ==
    checked.done =>
        /\ checked.succeeded # checked.failed
        /\ checked.succeeded <=> (word.hi < 32768)
        /\ (word.hi < 32768) <=> (hr >= 0)
        /\ (hr \in {S_OK, S_FALSE} => checked.succeeded)
        /\ (word \in ErrorWords =>
                /\ hr < 0
                /\ checked.failed
                /\ hr \in {E_NOINTERFACE, E_POINTER, E_FAIL, E_OUTOFMEMORY,
                           E_INVALIDARG, E_NOTIMPL})
        /\ (hr \in {E_NOINTERFACE, E_POINTER, E_FAIL, E_OUTOFMEMORY,
                    E_INVALIDARG, E_NOTIMPL} => word \in ErrorWords)

\* E_OUTOFMEMORY, 0x8007000E, fails
C23_Witness ==
    /\ checked.done
    /\ word = [hi |-> 32775, lo |-> 14]
    /\ hr = E_OUTOFMEMORY
    /\ hr < 0
    /\ checked.failed
    /\ ~checked.succeeded

\* ------------------------------------------------------------------------
\* Validation of the method signatures (validate_trait, validate_impl) and
\* the parameters of the generated items
\* ------------------------------------------------------------------------

\* most parameters behind the receiver in the signatures looked at
MaxParams == 2

\* a syn::Type: its variant, the identifier of the last path segment of a
\* Type::Path (of the type inside the parentheses for a Type::Paren, of the
\* mutability for a Type::Reference), and the element count of a Type::Tuple
Ty(kind, ident, elems) == [kind |-> kind, ident |-> ident, elems |-> elems]

PathIdents ==
    {"i32", "String", "Vec", "Box", "Rc", "Arc", "Option", "Result", "str"}

\* i32, std::string::String, Vec<u8>, ..., &T, &mut T, [T], dyn Trait,
\* impl Trait, (), (i32, i32), *const u8, (String), (i32)
SynTypes ==
    {Ty("Path", n, 0) : n \in PathIdents}
    \cup {Ty("Reference", m, 0) : m \in {"&", "&mut "}}
    \cup {Ty("Slice", "", 0), Ty("TraitObject", "", 0), Ty("ImplTrait", "", 0),
          Ty("Tuple", "", 0), Ty("Tuple", "", 2), Ty("Ptr", "", 0),
          Ty("Paren", "String", 0), Ty("Paren", "i32", 0)}

\* check_ffi_safe_type(ty): None for Ok(()), Some(message) for Err(message)
check_ffi_safe_type(ty) ==
    IF ty.kind = "Path"
    THEN IF ty.ident = "String"
         THEN Some("String is not FFI-safe. Use *const c_char or *const u8 instead")
         ELSE IF ty.ident = "Vec"
         THEN Some("Vec<T> is not FFI-safe. Use *const T and a length parameter instead")
         ELSE IF ty.ident = "Box"
         THEN Some("Box<T> is not FFI-safe. Use *mut T instead")
         ELSE IF ty.ident \in {"Rc", "Arc"}
         THEN Some(ty.ident \o " is not FFI-safe. Use raw pointers instead")
         ELSE IF ty.ident = "Result"
         THEN Some("Result<T, E> is not FFI-safe. Use error codes or out-parameters instead")
         ELSE IF ty.ident = "str"
         THEN Some("str is not FFI-safe. Use *const c_char or *const u8 instead")
         ELSE None
    ELSE IF ty.kind = "Reference"
    THEN Some(ty.ident \o "T references are not recommended for FFI. Use *const T or *mut T instead")
    ELSE IF ty.kind = "Slice"
    THEN Some("Slices [T] are not FFI-safe. Use *const T and a length parameter instead")
    ELSE IF ty.kind = "TraitObject"
    THEN Some("Trait objects (dyn Trait) are not FFI-safe")
    ELSE IF ty.kind = "ImplTrait"
    THEN Some("impl Trait is not FFI-safe")
    ELSE IF ty.kind = "Tuple" /\ ty.elems # 0
    THEN Some("Non-empty tuples are not FFI-safe. Use a #[repr(C)] struct instead")
    ELSE None

\* syn::Error::new(span, format!("method '{}': {}", method_name, message))
MethodError(method_name, message) ==
    [ok |-> FALSE, kind |-> "validation", method |-> method_name,
     message |-> message]

\* the first typed argument the type check rejects, if any
RECURSIVE FirstUnsafeInput(_, _)
FirstUnsafeInput(inputs, i) ==
    IF i > Len(inputs)
    THEN None
    ELSE IF check_ffi_safe_type(inputs[i].ty) # None
    THEN check_ffi_safe_type(inputs[i].ty)
    ELSE FirstUnsafeInput(inputs, i + 1)

\* validate_trait_method / validate_impl_method: the two have the same
\* checks in the same order; None for Ok(())
validate_method(method) ==
    IF method.asyncness
    THEN Some(MethodError(method.name,
                "async functions are not supported in C++ vtables"))
    ELSE IF method.generics
    THEN Some(MethodError(method.name,
                "generic methods are not supported in C++ vtables"))
    ELSE IF method.receiver = "none"
    THEN Some(MethodError(method.name,
                "must have &self or &mut self parameter"))
    ELSE IF method.receiver = "self"
    THEN Some(MethodError(method.name,
                "self by value is not supported. Use &self or &mut self instead"))
    ELSE IF FirstUnsafeInput(method.inputs, 1) # None
    THEN Some(MethodError(method.name, Unwrap(FirstUnsafeInput(method.inputs, 1))))
    ELSE IF method.output # None /\ check_ffi_safe_type(Unwrap(method.output)) # None
    THEN Some(MethodError(method.name,
                "return type - " \o Unwrap(check_ffi_safe_type(Unwrap(method.output)))))
    ELSE None

\* validate_trait: the error of the first method that has one
RECURSIVE validate_trait(_, _)
validate_trait(items, i) ==
    IF i > Len(items)
    THEN None
    ELSE IF validate_method(items[i]) # None
    THEN validate_method(items[i])
    ELSE validate_trait(items, i + 1)

\* validate_impl: generic impl blocks are rejected, then each method
validate_impl(impl_generics, items) ==
    IF impl_generics
    THEN Some([ok |-> FALSE, kind |-> "generic impl",
               message |-> "generic impl blocks are not supported in C++ vtables"])
    ELSE validate_trait(items, 1)

\* the parameters a method keeps in the generated items: the typed
\* arguments whose pattern is an identifier, as (name, type)
RECURSIVE collect_params(_, _)
collect_params(inputs, i) ==
    IF i > Len(inputs)
    THEN <<>>
    ELSE (IF inputs[i].pat.kind = "Ident"
          THEN <<[name |-> inputs[i].pat.ident, ty |-> inputs[i].ty]>>
          ELSE <<>>) \o collect_params(inputs, i + 1)

\* the slot attributes of the methods, as the resolvers read them
SlotItems(items) ==
    [i \in 1..Len(items) |-> [name |-> items[i].name, attr |-> items[i].attr]]

\* the method of the block with the given name
MethodNamed(items, name) ==
    items[CHOOSE i \in 1..Len(items) : items[i].name = name]

\* the function pointer type of the vtable field of a method:
\* unsafe extern cc fn(this: *mut c_void, name: type, ...) -> output
VTableFieldType(method, cc) ==
    [abi |-> cc, this |-> "*mut c_void",
     params |-> collect_params(method.inputs, 1), output |-> method.output]

\* the wrapper of the implementation side: its parameters behind `this`
\* and the arguments of the call obj.method(...)
WrapperFn(method, cc) ==
    [abi |-> cc, this |-> "*mut c_void",
     params |-> collect_params(method.inputs, 1),
     call_args |-> [k \in 1..Len(collect_params(method.inputs, 1)) |->
                        collect_params(method.inputs, 1)[k].name],
     is_mut |-> method.receiver = "&mut self",
     output |-> method.output]

\* cppvtable_internal from its first line: validation, then the slot
\* resolution and the record; the items of `expanded` and the type of the
\* field of each method
cppvtable_expand(config, items) ==
    IF validate_trait(items, 1) # None
    THEN Unwrap(validate_trait(items, 1)) @@ [emitted |-> {}]
    ELSE
        LET out == cppvtable_internal(config, SlotItems(items))
        IN  IF ~out.ok
            THEN out @@ [emitted |-> {}]
            ELSE out @@
                 [emitted |-> {"iid_definition", "vtable_struct", "struct",
                               "impl", "wrapper_methods", "VTableLayout"},
                  signatures |->
                     [j \in 1..Len(out.methods) |->
                        VTableFieldType(MethodNamed(items, out.methods[j].name),
                                        out.x86_cc)]]

\* cppvtable_impl_internal from its first line
cppvtable_impl_expand(config, impl_generics, items) ==
    IF validate_impl(impl_generics, items) # None
    THEN Unwrap(validate_impl(impl_generics, items)) @@ [emitted |-> {}]
    ELSE
        LET out == cppvtable_impl_internal(config, SlotItems(items))
        IN  IF ~out.ok
            THEN out @@ [emitted |-> {}]
            ELSE out @@
                 [emitted |-> expanded_items(config, out),
                  signatures |->
                     [j \in 1..Len(out.methods) |->
                        WrapperFn(MethodNamed(items, out.methods[j].name),
                                  out.x86_cc)]]

\* a typed argument `pat: ty`; the pattern is an identifier or `_`
Arg(pat_kind, ident, ty) ==
    [pat |-> [kind |-> pat_kind, ident |-> ident], ty |-> ty]

\* types that pass the type check, for the longer argument lists
PlainTypes == {Ty("Path", "i32", 0), Ty("Ptr", "", 0)}

\* the argument lists behind the receiver: none, one argument of any of
\* the types, and lists of plain arguments named by identifiers or `_`
InputLists ==
    {<<>>}
    \cup {<<Arg("Ident", "a", ty)>> : ty \in SynTypes}
    \cup {<<Arg(k1, IF k1 = "Ident" THEN "a" ELSE "_", t1)>> :
            k1 \in {"Ident", "Wild"}, t1 \in PlainTypes}
    \cup (IF MaxParams < 2 THEN {} ELSE
          {<<Arg(k1, IF k1 = "Ident" THEN "a" ELSE "_", t1),
             Arg(k2, IF k2 = "Ident" THEN "b" ELSE "_", t2)>> :
            k1 \in {"Ident", "Wild"}, k2 \in {"Ident", "Wild"},
            t1 \in PlainTypes, t2 \in PlainTypes})
    \cup (IF MaxParams < 3 THEN {} ELSE
          {<<Arg("Ident", "a", t1), Arg(k2, IF k2 = "Ident" THEN "b" ELSE "_", t2),
             Arg("Ident", "c", t1)>> :
            k2 \in {"Ident", "Wild"}, t1 \in PlainTypes, t2 \in PlainTypes})

\* a method item of a trait or impl block
MethodItem(name, attr, asyncness, generics, receiver, inputs, output) ==
    [name |-> name, attr |-> attr, asyncness |-> asyncness,
     generics |-> generics, receiver |-> receiver, inputs |-> inputs,
     output |-> output]

\* fn name(&self);
PlainMethod(name, attr) ==
    MethodItem(name, attr, FALSE, FALSE, "&self", <<>>, None)

\* the signatures of a method: every combination of async, generic
\* parameters and receiver; every argument list, for the two receivers by
\* reference; every return type, alone and behind a String argument
Signatures(name, attr) ==
    {MethodItem(name, attr, a, g, r, <<>>, None) :
        a \in BOOLEAN, g \in BOOLEAN,
        r \in {"none", "self", "&self", "&mut self"}}
    \cup {MethodItem(name, attr, FALSE, FALSE, r, inputs, None) :
            r \in {"&self", "&mut self"}, inputs \in InputLists}
    \cup {MethodItem(name, attr, FALSE, FALSE, "&self", inputs, Some(ty)) :
            inputs \in {<<>>, <<Arg("Ident", "a", Ty("Path", "String", 0))>>,
                        <<Arg("Wild", "_", Ty("Path", "i32", 0))>>},
            ty \in SynTypes}

\* the blocks looked at: one method with any signature, and two methods,
\* one plain and one with any signature, with and without explicit slots
Blocks ==
    {<<m>> : m \in UNION {Signatures("m1", attr) : attr \in {None, Some(1)}}}
    \cup {<<PlainMethod("m1", a1), m>> :
            a1 \in {None, Some(1)},
            m \in UNION {Signatures("m2", a2) : a2 \in {None, Some(0)}}}
    \cup {<<m, PlainMethod("m2", a2)>> :
            m \in UNION {Signatures("m1", a1) : a1 \in {None, Some(1)}},
            a2 \in {None, Some(0)}}

\* string literals of #[com_interface("...")]
BlockGuids ==
    {"12345678-1234-5678-9abc-def012345678",
     "12345678-1234-5678-9abc-def01234567",
     "1-12-5678-9abc-def012345678",
     "12345678123456789abcdef012345678",
     "+1234567-1234-5678-9abc-def012345678"}

InitValidate ==
    /\ declaration = [macro |-> "none"]
    /\ generated = [done |-> FALSE]
    /\ target = "x86_64"
    /\ NoGen /\ NoRtti /\ NoCom /\ NoCall /\ NoLink /\ NoGuid /\ NoOrder /\ NoVRtti /\ NoHresult /\ NoProto

\* #[cppvtable] / #[cppvtable(stdcall)] trait I { items }
ExpandCppvtable ==
    /\ declaration.macro = "none"
    /\ \E cc \in {"Thiscall", "Stdcall"}, items \in Blocks :
        LET config == [calling_convention |-> cc, base_interface |-> None,
                       slot_overrides |-> [x \in {} |-> 0]]
        IN  /\ declaration' = [macro |-> "cppvtable", side |-> "interface",
                               config |-> config, items |-> items]
            /\ generated' = [done |-> TRUE] @@ cppvtable_expand(config, items)
    /\ UNCHANGED <<target, protoVars, genVars, rttiVars, comVars, callVars, linkVars,
                   guidVars, orderVars, vrttiVars, hresultVars>>

\* #[com_interface("guid")] trait I { items }: the literal is parsed first
ExpandComInterface ==
    /\ declaration.macro = "none"
    /\ \E guid \in BlockGuids, items \in Blocks :
        /\ declaration' = [macro |-> "com_interface", side |-> "interface",
                           guid |-> guid, config |-> com_interface,
                           items |-> items]
        /\ generated' =
            IF ~parse_guid_string(guid).ok
            THEN [done |-> TRUE, ok |-> FALSE, kind |-> "guid",
                  message |-> parse_guid_string(guid).error, emitted |-> {}]
            ELSE [done |-> TRUE] @@ cppvtable_expand(com_interface, items)
    /\ UNCHANGED <<target, protoVars, genVars, rttiVars, comVars, callVars, linkVars,
                   guidVars, orderVars, vrttiVars, hresultVars>>

\* #[cppvtable_impl(I)] impl S { items }
ExpandCppvtableImpl ==
    /\ declaration.macro = "none"
    /\ \E impl_generics \in BOOLEAN, items \in Blocks :
        /\ declaration' = [macro |-> "cppvtable_impl", side |-> "impl",
                           config |-> cppvtable_impl_impl,
                           impl_generics |-> impl_generics, items |-> items]
        /\ generated' = [done |-> TRUE] @@
                cppvtable_impl_expand(cppvtable_impl_impl, impl_generics, items)
    /\ UNCHANGED <<target, protoVars, genVars, rttiVars, comVars, callVars, linkVars,
                   guidVars, orderVars, vrttiVars, hresultVars>>

\* #[com_implement(I)] impl S { items }
ExpandComImplement ==
    /\ declaration.macro = "none"
    /\ \E impl_generics \in BOOLEAN, items \in Blocks :
        /\ declaration' = [macro |-> "com_implement", side |-> "impl",
                           config |-> com_implement_internal,
                           impl_generics |-> impl_generics, items |-> items]
        /\ generated' = [done |-> TRUE] @@
                cppvtable_impl_expand(com_implement_internal, impl_generics, items)
    /\ UNCHANGED <<target, protoVars, genVars, rttiVars, comVars, callVars, linkVars,
                   guidVars, orderVars, vrttiVars, hresultVars>>

NextValidate ==
    \/ ExpandCppvtable
    \/ ExpandComInterface
    \/ ExpandCppvtableImpl
    \/ ExpandComImplement

SpecValidate == InitValidate /\ [][NextValidate]_vars

\* the type a syn::Type denotes: parentheses around a type do not change it
Denoted(ty) == IF ty.kind = "Paren" THEN Ty("Path", ty.ident, 0) ELSE ty

\* String, Vec, Box, Rc, Arc, Result, str, a reference, a slice, a trait
\* object, impl Trait, a non-empty tuple
Unsupported(ty) ==
    \/ Denoted(ty).kind = "Path" /\
       Denoted(ty).ident \in {"String", "Vec", "Box", "Rc", "Arc", "Result", "str"}
    \/ Denoted(ty).kind \in {"Reference", "Slice", "TraitObject", "ImplTrait"}
    \/ Denoted(ty).kind = "Tuple" /\ Denoted(ty).elems > 0

\* the method is async, generic, without receiver, takes self by value, or
\* has an unsupported parameter or return type
Offends(method) ==
    \/ method.asyncness
    \/ method.generics
    \/ method.receiver \in {"none", "self"}
    \/ \E k \in 1..Len(method.inputs) : Unsupported(method.inputs[k].ty)
    \/ method.output # None /\ Unsupported(Unwrap(method.output))

\* the macro ran on a block
Generated == generated.done

\* the literal of a #[com_interface] declaration is not a GUID string
MalformedGuid ==
    declaration.macro = "com_interface" /\ ~IsGuidShape(declaration.guid)

\* C24: a declaration with a method that is async, generic, without
\* receiver, with self by value or with an unsupported parameter or return
\* type is rejected with an error naming the first such method and nothing
\* is emitted; a declaration with a slot conflict is rejected with an error
\* naming the method and nothing is emitted; a #[com_interface] whose
\* literal is not a GUID string is rejected and nothing is emitted
C24_InvalidRejected ==
    Generated =>
        /\ \A i \in 1..Len(declaration.items) :
            (Offends(declaration.items[i]) /\
             \A j \in 1..(i - 1) : ~Offends(declaration.items[j])) =>
                /\ ~generated.ok
                /\ generated.emitted = {}
                /\ generated.kind \in {"validation", "guid", "generic impl"}
                /\ (generated.kind = "validation" =>
                        generated.method = declaration.items[i].name)
        /\ \A i \in 1..Len(declaration.items) :
            FirstConflict(declaration, i) =>
                /\ ~generated.ok
                /\ generated.emitted = {}
                /\ (generated.kind \in {"base", "overlap"} =>
                        generated.method = declaration.items[i].name)
        /\ (MalformedGuid => ~generated.ok /\ generated.emitted = {})

\* ------------------------------------------------------------------------
\* Order of the assigned slots
\* ------------------------------------------------------------------------

\* the slot the resolved table gives to the method of the given name
SlotOf(e, name) ==
    LET j == CHOOSE j \in 1..Len(e.out.methods) : e.out.methods[j].name = name
    IN  e.out.methods[j].slot

\* C25: in every successfully resolved slot table the slots of the methods
\* are strictly increasing in declaration order, so no two methods share a
\* slot, and the methods sorted by slot are in declaration order
C25_SlotsIncreasing ==
    (Expanded /\ expansion.out.ok) =>
        LET e == expansion
        IN  /\ Len(e.out.methods) = Len(e.items)
            /\ \A i \in 1..Len(e.items) :
                    \E j \in 1..Len(e.out.methods) :
                        e.out.methods[j].name = e.items[i].name
            /\ \A i \in 1..Len(e.items) : \A j \in (i + 1)..Len(e.items) :
                    SlotOf(e, e.items[i].name) < SlotOf(e, e.items[j].name)
            /\ \A i \in 1..Len(e.items) : \A j \in 1..Len(e.items) :
                    i # j => SlotOf(e, e.items[i].name) # SlotOf(e, e.items[j].name)
            /\ \A j \in 1..Len(e.items) :
                    e.out.methods[j].name = e.items[j].name

\* two methods of an implementation, the first with the explicit slot 1:
\* they get the slots 1 and 2, in that order
C25_Witness ==
    /\ Expanded
    /\ expansion.out.ok
    /\ expansion.macro = "cppvtable_impl"
    /\ Len(expansion.items) = 2
    /\ expansion.items[1].attr = Some(1)
    /\ expansion.items[2].attr = None
    /\ SlotOf(expansion, "m1") = 1
    /\ SlotOf(expansion, "m2") = 2


\* ------------------------------------------------------------------------
\* Parameters of the generated function pointer types and wrappers
\* ------------------------------------------------------------------------

\* the typed arguments of a method as (type) in declaration order
DeclaredTypes(method) == [k \in 1..Len(method.inputs) |-> method.inputs[k].ty]

\* the types of the parameters of a generated signature behind `this`
GeneratedTypes(signature) ==
    [k \in 1..Len(signature.params) |-> signature.params[k].ty]

\* C26: for every method of an accepted declaration the generated vtable
\* function pointer type and the generated wrapper take, behind the
\* receiver, exactly the non-receiver parameters of the method, all of
\* them, in declaration order and with their declared types, and the
\* wrapper passes each of them to the concrete method
C26_AllParametersForwarded ==
    (Generated /\ generated.ok) =>
        \A j \in 1..Len(generated.methods) :
            LET method == MethodNamed(declaration.items, generated.methods[j].name)
                signature == generated.signatures[j]
            IN  /\ Len(signature.params) = Len(method.inputs)
                /\ GeneratedTypes(signature) = DeclaredTypes(method)
                /\ (declaration.side = "impl" =>
                        signature.call_args =
                            [k \in 1..Len(signature.params) |->
                                signature.params[k].name])


\* ------------------------------------------------------------------------
\* Explicit slots in the declarative syntax (define_interface!)
\* ------------------------------------------------------------------------

\* the character is a digit of the radix
IsDigit(c, radix) == to_digit(c) # None /\ Unwrap(to_digit(c)) < radix

\* the digit loop of <usize as FromStr>::from_str
RECURSIVE DecimalDigits(_, _, _)
DecimalDigits(s, i, acc) ==
    IF i > Len(s)
    THEN Some(acc)
    ELSE IF ~IsDigit(CharAt(s, i), 10)
    THEN None
    ELSE DecimalDigits(s, i + 1, (acc * 10) + Unwrap(to_digit(CharAt(s, i))))

\* str::parse::<usize>(): decimal digits behind an optional plus sign, or
\* None for Err
parse_usize(s) ==
    LET digits == IF s # "" /\ CharAt(s, 1) = "+" THEN Tail(s) ELSE s
    IN  IF digits = "" THEN None ELSE DecimalDigits(digits, 1, 0)

\* the radix an integer literal is written in
LitRadix(lit) ==
    IF Len(lit) >= 2 /\ SubSeq(lit, 1, 2) = "0x" THEN 16
    ELSE IF Len(lit) >= 2 /\ SubSeq(lit, 1, 2) = "0o" THEN 8
    ELSE IF Len(lit) >= 2 /\ SubSeq(lit, 1, 2) = "0b" THEN 2
    ELSE 10

\* the digits of an integer literal: underscores are skipped and the
\* digits end where the suffix begins
RECURSIVE LitDigits(_, _, _, _, _)
LitDigits(lit, i, radix, acc, any) ==
    IF i > Len(lit)
    THEN (IF any THEN Some(acc) ELSE None)
    ELSE IF CharAt(lit, i) = "_"
    THEN LitDigits(lit, i + 1, radix, acc, any)
    ELSE IF IsDigit(CharAt(lit, i), radix)
    THEN LitDigits(lit, i + 1, radix,
                   (acc * radix) + Unwrap(to_digit(CharAt(lit, i))), TRUE)
    ELSE (IF any THEN Some(acc) ELSE None)

\* LitInt::base10_parse::<usize>().ok(): the value of the literal in any
\* radix, whatever its suffix
base10_parse(lit) ==
    LitDigits(lit, IF LitRadix(lit) = 10 THEN 1 ELSE 3, LitRadix(lit), 0, FALSE)

\* parse_slot_attr on #[slot(N)]: the literal N as an integer
parse_slot_literal(lit) == base10_parse(lit)

\* a parser of the slots(...) option that reads the literal as the
\* attribute does
parse_slot_overrides_from_stream_AnyRadix(stream) ==
    [name \in {stream[k].name : k \in
                {k \in 1..Len(stream) : base10_parse(stream[k].literal) # None}}
        |-> Unwrap(base10_parse(
                stream[CHOOSE k \in 1..Len(stream) : stream[k].name = name].literal))]

\* parse_slot_overrides_from_stream on `name = literal, ...`: the entries
\* whose literal, as text, parses as usize; the others are skipped
parse_slot_overrides_from_stream(stream) ==
    [name \in {stream[k].name : k \in
                {k \in 1..Len(stream) : parse_usize(stream[k].literal) # None}}
        |-> Unwrap(parse_usize(
                stream[CHOOSE k \in 1..Len(stream) : stream[k].name = name].literal))]

\* the accumulator [$($slots)* $method = $slot,] of define_interface!: one
\* entry per method written with [N], in declaration order
RECURSIVE CollectSlots(_, _)
CollectSlots(methods, i) ==
    IF i > Len(methods)
    THEN <<>>
    ELSE (IF methods[i].slot # None
          THEN <<[name |-> methods[i].name, literal |-> Unwrap(methods[i].slot)]>>
          ELSE <<>>) \o CollectSlots(methods, i + 1)

\* define_interface! { interface I { methods } }: the trait under the
\* attribute with the option slots(...), or without options when no method
\* has a slot; the attributes of the methods are passed through
define_interface(methods) ==
    [config |-> [calling_convention |-> "Thiscall", base_interface |-> None,
                 slot_overrides |->
                    IF CollectSlots(methods, 1) = <<>>
                    THEN [x \in {} |-> 0]
                    ELSE parse_slot_overrides_from_stream(CollectSlots(methods, 1))],
     items |-> [i \in 1..Len(methods) |->
                    [name |-> methods[i].name,
                     attr |-> IF methods[i].attr = None THEN None
                              ELSE parse_slot_literal(Unwrap(methods[i].attr))]]]

\* the same trait with #[slot(N)] on each method that was written [N]
WithSlotAttributes(methods) ==
    [config |-> [calling_convention |-> "Thiscall", base_interface |-> None,
                 slot_overrides |-> [x \in {} |-> 0]],
     items |-> [i \in 1..Len(methods) |->
                    [name |-> methods[i].name,
                     attr |-> IF methods[i].slot # None
                              THEN parse_slot_literal(Unwrap(methods[i].slot))
                              ELSE IF methods[i].attr = None THEN None
                              ELSE parse_slot_literal(Unwrap(methods[i].attr))]]]

\* integer literals written as a slot: decimal, with a radix prefix, with
\* a type suffix, with an underscore
SlotLiterals == {"0", "1", "3", "4", "0x3", "3usize", "0_3", "0b11"}

\* the methods of a declarative interface: each with or without [N], the
\* first also with or without an attribute #[slot(2)]
DeclaredMethods ==
    UNION {{[i \in 1..n |->
                [name |-> MethodNames[i], slot |-> f[i],
                 attr |-> IF i = 1 THEN a ELSE None]] :
            f \in [1..n -> {None} \cup {Some(lit) : lit \in SlotLiterals}],
            a \in {None, Some("2")}} : n \in 1..MaxMethods}

InitDeclare ==
    /\ declaration = [macro |-> "none"]
    /\ generated = [done |-> FALSE]
    /\ target = "x86_64"
    /\ NoGen /\ NoRtti /\ NoCom /\ NoCall /\ NoLink /\ NoGuid /\ NoOrder /\ NoVRtti /\ NoHresult /\ NoProto

\* define_interface! { interface I { methods } } is expanded
DefineInterface ==
    /\ declaration.macro = "none"
    /\ \E methods \in DeclaredMethods :
        LET trait == define_interface(methods)
        IN  /\ declaration' = [macro |-> "define_interface", methods |-> methods,
                               side |-> "interface", config |-> trait.config,
                               items |-> trait.items]
            /\ generated' = [done |-> TRUE, stage |-> "declarative",
                             out |-> cppvtable_internal(trait.config, trait.items)]
    /\ UNCHANGED <<target, protoVars, genVars, rttiVars, comVars, callVars, linkVars,
                   guidVars, orderVars, vrttiVars, hresultVars>>

\* the same methods under #[cppvtable], each [N] written as #[slot(N)]
SlotAttributeForm ==
    /\ declaration.macro = "define_interface"
    /\ generated.stage = "declarative"
    /\ LET trait == WithSlotAttributes(declaration.methods)
       IN  generated' = [done |-> TRUE, stage |-> "both", out |-> generated.out,
                         attribute |-> cppvtable_internal(trait.config, trait.items)]
    /\ UNCHANGED <<declaration, target, protoVars, genVars, rttiVars, comVars, callVars,
                   linkVars, guidVars, orderVars, vrttiVars, hresultVars>>

NextDeclare == DefineInterface \/ SlotAttributeForm

SpecDeclare == InitDeclare /\ [][NextDeclare]_vars

\* C27: an explicit slot written [N] in the declarative syntax resolves to
\* the same slot table as #[slot(N)] on the method; the override is applied
\* to the method it names for every integer literal N, never dropped; and
\* where a method has both forms the value of slots(...) is the one used
C27_DeclarativeSlots ==
    (generated.done /\ generated.stage = "both") =>
        /\ generated.out = generated.attribute
        /\ \A i \in 1..Len(declaration.methods) :
            declaration.methods[i].slot # None =>
                /\ declaration.methods[i].name \in
                        DOMAIN declaration.config.slot_overrides
                /\ declaration.config.slot_overrides[declaration.methods[i].name] =
                        Unwrap(base10_parse(Unwrap(declaration.methods[i].slot)))
                /\ (generated.out.ok =>
                        \E j \in 1..Len(generated.out.methods) :
                            /\ generated.out.methods[j].name =
                                    declaration.methods[i].name
                            /\ generated.out.methods[j].slot =
                                Unwrap(base10_parse(Unwrap(declaration.methods[i].slot))))


\* ------------------------------------------------------------------------
\* The reference protocol: threads that add_ref only while they hold a
\* reference and release once per reference they hold
\* ------------------------------------------------------------------------

\* most single add_ref and release calls in a run
MaxProtocolCalls == 5

\* the thread that created the object
Creator == "t1"

\* the thread holds at least one reference
Holds(t) == holding[t].refs > 0 \/ holding[t].bulk

\* no thread holds a reference
NobodyHolds == \A t \in Threads : ~Holds(t)

InitProtocol ==
    /\ counter = U32(1)
    /\ holding = [t \in Threads |->
                    [refs |-> IF t = Creator THEN 1 ELSE 0, bulk |-> FALSE]]
    /\ inside = [t \in Threads |-> "idle"]
    /\ previous = [t \in Threads |-> U32(0)]
    /\ \E checks \in BOOLEAN :
        lifetime = [overflow_checks |-> checks, calls |-> 0, ended |-> FALSE,
                    zeros |-> 0, later |-> 0]
    /\ target = "x86_64"
    /\ NoGen /\ NoRtti /\ NoCom /\ NoCall /\ NoLink /\ NoGuid /\ NoOrder /\ NoVRtti /\ NoHresult /\ NoValidate

\* a call that starts: counted, and counted as late when a release has
\* already brought the counter to 0
Started(ends) ==
    [lifetime EXCEPT !.calls = @ + 1,
                     !.later = IF lifetime.ended THEN @ + 1 ELSE @,
                     !.ended = @ \/ ends]

\* add_ref by a thread that holds a reference: fetch_add(1, Relaxed); the
\* thread holds one reference more
hold_add_ref(t) ==
    /\ inside[t] = "idle"
    /\ Holds(t)
    /\ lifetime.calls < MaxProtocolCalls
    /\ counter' = wrapping_add(counter)
    /\ previous' = [previous EXCEPT ![t] = counter]
    /\ holding' = [holding EXCEPT ![t].refs = @ + 1]
    /\ inside' = [inside EXCEPT ![t] = "add_ref"]
    /\ lifetime' = Started(FALSE)
    /\ UNCHANGED <<target, genVars, rttiVars, comVars, callVars, linkVars,
                   guidVars, orderVars, vrttiVars, hresultVars, validateVars>>

\* add_ref: the `+ 1` on the fetched value and the return
hold_add_ref_return(t) ==
    /\ inside[t] = "add_ref"
    /\ inside' = [inside EXCEPT ![t] =
                IF previous[t] = U32_MAX /\ lifetime.overflow_checks
                THEN "panicked" ELSE "idle"]
    /\ UNCHANGED <<counter, holding, previous, lifetime, target, genVars,
                   rttiVars, comVars, callVars, linkVars, guidVars, orderVars,
                   vrttiVars, hresultVars, validateVars>>

\* release of one of the references the thread holds:
\* fetch_sub(1, Release)
drop_release(t) ==
    /\ inside[t] = "idle"
    /\ Holds(t)
    /\ lifetime.calls < MaxProtocolCalls
    /\ counter' = wrapping_sub(counter)
    /\ previous' = [previous EXCEPT ![t] = counter]
    /\ holding' = [holding EXCEPT ![t].refs =
                        IF @ > 0 THEN @ - 1 ELSE @]
    /\ inside' = [inside EXCEPT ![t] = "release"]
    /\ lifetime' = Started(wrapping_sub(counter) = U32(0))
    /\ UNCHANGED <<target, genVars, rttiVars, comVars, callVars, linkVars,
                   guidVars, orderVars, vrttiVars, hresultVars, validateVars>>

\* release: the `- 1` on the fetched value and the return
drop_release_return(t) ==
    /\ inside[t] = "release"
    /\ IF previous[t] = U32(0) /\ lifetime.overflow_checks
       THEN /\ inside' = [inside EXCEPT ![t] = "panicked"]
            /\ UNCHANGED lifetime
       ELSE /\ inside' = [inside EXCEPT ![t] = "idle"]
            /\ lifetime' = [lifetime EXCEPT !.zeros =
                    IF wrapping_sub(previous[t]) = U32(0) THEN @ + 1 ELSE @]
    /\ UNCHANGED <<counter, holding, previous, target, genVars, rttiVars,
                   comVars, callVars, linkVars, guidVars, orderVars, vrttiVars,
                   hresultVars, validateVars>>

\* a thread passes one of its references to another thread
hand_over(t, u) ==
    /\ t # u
    /\ inside[t] = "idle"
    /\ holding[t].refs > 0
    /\ holding' = [holding EXCEPT ![t].refs = @ - 1, ![u].refs = @ + 1]
    /\ UNCHANGED <<counter, inside, previous, lifetime, target, genVars, rttiVars,
                   comVars, callVars, linkVars, guidVars, orderVars, vrttiVars,
                   hresultVars, validateVars>>

\* a thread that holds a reference calls add_ref 2^32 - 2 times in a row
\* and keeps the references, on a counter at 1 while no other thread is
\* inside a call: none of these calls wraps
hold_add_ref_loop(t) ==
    /\ inside = [u \in Threads |-> "idle"]
    /\ Holds(t)
    /\ \A u \in Threads : ~holding[u].bulk
    /\ counter = U32(1)
    /\ counter' = Plus(counter, LoopCalls)
    /\ holding' = [holding EXCEPT ![t].bulk = TRUE]
    /\ UNCHANGED <<inside, previous, lifetime, target, genVars, rttiVars, comVars,
                   callVars, linkVars, guidVars, orderVars, vrttiVars,
                   hresultVars, validateVars>>

NextProtocol ==
    \E t \in Threads :
        \/ hold_add_ref(t)
        \/ hold_add_ref_return(t)
        \/ drop_release(t)
        \/ drop_release_return(t)
        \/ hold_add_ref_loop(t)
        \/ \E u \in Threads : hand_over(t, u)

SpecProtocol == InitProtocol /\ [][NextProtocol]_vars

\* C28: in every interleaving of threads that follow the reference
\* protocol at most one release returns 0, the release that brings the
\* counter to 0 is the last one (no thread holds a reference any more), no
\* add_ref or release is executed after it, and once every reference is
\* released and every call has returned exactly one release has returned 0
C28_OneLastRelease ==
    /\ lifetime.zeros <= 1
    /\ (lifetime.ended => NobodyHolds)
    /\ lifetime.later = 0
    /\ ((NobodyHolds /\ \A t \in Threads : inside[t] = "idle") =>
            lifetime.zeros = 1)


\* ------------------------------------------------------------------------
\* The two resolvers on the same method list
\* ------------------------------------------------------------------------

\* the pairs of macros an interface and its implementation are written
\* with: #[cppvtable] or #[cppvtable(stdcall)] with #[cppvtable_impl],
\* #[com_interface] with #[com_implement]
Pairings ==
    {[name |-> "plain",
      interface |-> [calling_convention |-> "Thiscall", base_interface |-> None,
                     slot_overrides |-> [x \in {} |-> 0]],
      impl |-> cppvtable_impl_impl],
     [name |-> "stdcall",
      interface |-> [calling_convention |-> "Stdcall", base_interface |-> None,
                     slot_overrides |-> [x \in {} |-> 0]],
      impl |-> cppvtable_impl_impl],
     [name |-> "com", interface |-> com_interface,
      impl |-> com_implement_internal]}

\* the ABI the compiler keeps for each generated function pointer field or
\* wrapper of an expansion, on the build target
KeptAbi(out, entries, t) ==
    IF out.ok THEN [k \in 1..Len(entries) |-> ExternAbi(out.x86_cc, t)] ELSE <<>>

InitResolve ==
    /\ \E pairing \in Pairings, items \in AllItems :
        declaration = [macro |-> "pair", pairing |-> pairing, items |-> items]
    /\ generated = [done |-> FALSE, interface |-> FALSE, impl |-> FALSE]
    /\ target \in {"x86", "x86_64"}
    /\ NoGen /\ NoRtti /\ NoCom /\ NoCall /\ NoLink /\ NoGuid /\ NoOrder /\ NoVRtti /\ NoHresult /\ NoProto

\* the interface macro resolves the list and writes the vtable record,
\* and the compiler keeps the variant of each field for the build target
ResolveInterface ==
    /\ declaration.macro = "pair"
    /\ ~generated.interface
    /\ LET out == cppvtable_internal(declaration.pairing.interface,
                                     declaration.items)
       IN  generated' =
            [done |-> generated.impl, interface |-> TRUE,
             impl |-> generated.impl, record |-> out,
             field_abi |-> KeptAbi(out, IF out.ok THEN out.vtable_fields ELSE <<>>,
                                   target)]
            @@ generated
    /\ UNCHANGED <<declaration, target, genVars, rttiVars, comVars, callVars,
                   linkVars, guidVars, orderVars, vrttiVars, hresultVars,
                   protoVars>>

\* the implementation macro resolves the same list and writes the wrappers
\* and the initializer of the static vtable, and the compiler keeps the
\* variant of each wrapper for the build target
ResolveImpl ==
    /\ declaration.macro = "pair"
    /\ ~generated.impl
    /\ LET out == cppvtable_impl_internal(declaration.pairing.impl,
                                          declaration.items)
       IN  generated' =
            [done |-> generated.interface, interface |-> generated.interface,
             impl |-> TRUE, static |-> out,
             wrapper_abi |-> KeptAbi(out, IF out.ok THEN out.vtable_entries ELSE <<>>,
                                     target)]
            @@ generated
    /\ UNCHANGED <<declaration, target, genVars, rttiVars, comVars, callVars,
                   linkVars, guidVars, orderVars, vrttiVars, hresultVars,
                   protoVars>>

NextResolve == ResolveInterface \/ ResolveImpl

SpecResolve == InitResolve /\ [][NextResolve]_vars

\* the field names of the vtable record
RecordFieldNames(out) ==
    {VTableStruct(out)[k] : k \in 1..Len(VTableStruct(out))}

\* the field names the initializer of the static vtable gives a value to
InitializerFieldNames(out) ==
    {VTableBody(out)[e].field : e \in 1..Len(VTableBody(out))}

\* C29: given the same method list, the resolver of the interface side and
\* the resolver of the implementation side either both fail or produce the
\* same vtable field names, methods and reserved placeholders alike, for
\* plain interfaces and for COM interfaces
C29_SameFieldNames ==
    (declaration.macro = "pair" /\ generated.done) =>
        /\ generated.record.ok <=> generated.static.ok
        /\ (generated.record.ok /\ generated.static.ok) =>
                RecordFieldNames(generated.record) =
                    InitializerFieldNames(generated.static)

\* C30: for every interface and every implementation of it, on x86 and on
\* other targets, each generated wrapper, reserved placeholders included,
\* has the calling convention of the vtable field it is stored in, for
\* #[cppvtable] and #[cppvtable(stdcall)] implemented with
\* #[cppvtable_impl] and for #[com_interface] with #[com_implement]
C30_SameCallingConvention ==
    (declaration.macro = "pair" /\ generated.done /\
     generated.record.ok /\ generated.static.ok) =>
        \A k \in 1..Len(generated.record.vtable_fields) :
            \A e \in 1..Len(generated.static.vtable_entries) :
                generated.record.vtable_fields[k] =
                        generated.static.vtable_entries[e].field =>
                    generated.field_abi[k] = generated.wrapper_abi[e]

====
